---- MODULE Spec2Model ----
(***************************************************************************)
(* Lexer and recursive-descent parser of parser-from-scratch.              *)
(*                                                                         *)
(* The source text is a sequence of one-character strings.  The tokenizer  *)
(* is the operator NextToken over (expr, cursor).  The parser is a stack   *)
(* machine: one frame per active Go call, one action per Go function; an   *)
(* action runs its function from the frame's resumption point up to the    *)
(* next call it makes or to its return.                                    *)
(***************************************************************************)
EXTENDS Integers, Sequences, FiniteSets, TLC

VARIABLES expr, cursor, lookahead, stack, ret, status, nextCalls, consumed

vars == <<expr, cursor, lookahead, stack, ret, status, nextCalls, consumed>>

(***************************************************************************)
(* Bounds of the model.                                                    *)
(***************************************************************************)
\* Longest generated input, in lexemes of Vocab.
MaxToks == 3
\* Call-stack depth at which the runtime gives up on a goroutine.
MaxStack == 90
\* Calls of NextToken made on one input when the tokenizer runs by itself.
MaxCalls == 8

(***************************************************************************)
(* Characters and character classes (Go regexp syntax classes).            *)
(***************************************************************************)
Digits == {"0", "1", "2", "3", "4", "5", "6", "7", "8", "9"}

\* \s
SpaceChars == {" ", "\t", "\n", "\r", "\f"}

\* \w
WordChars ==
  {"a", "b", "c", "d", "e", "f", "g", "h", "i", "j", "k", "l", "m",
   "n", "o", "p", "q", "r", "s", "t", "u", "v", "w", "x", "y", "z",
   "A", "B", "C", "D", "E", "F", "G", "H", "I", "J", "K", "L", "M",
   "N", "O", "P", "Q", "R", "S", "T", "U", "V", "W", "X", "Y", "Z"}
    \cup Digits \cup {"_"}

\* s[from..], the Go slice s[from-1:]
Drop(s, n) == SubSeq(s, n + 1, Len(s))

Take(s, n) == SubSeq(s, 1, n)

HasPrefix(s, p) == Len(s) >= Len(p) /\ Take(s, Len(p)) = p

\* Length of the longest prefix of s whose characters all lie in cls.
RECURSIVE RunLen(_, _)
RunLen(s, cls) ==
  IF s = <<>> \/ Head(s) \notin cls THEN 0 ELSE 1 + RunLen(Tail(s), cls)

\* Smallest index i >= from with s[i..] starting with p, or 0.
RECURSIVE IndexFrom(_, _, _)
IndexFrom(s, p, from) ==
  IF from + Len(p) - 1 > Len(s) THEN 0
  ELSE IF SubSeq(s, from, from + Len(p) - 1) = p THEN from
  ELSE IndexFrom(s, p, from + 1)

(***************************************************************************)
(* Token types (internal/tokenizer/token.go).                              *)
(***************************************************************************)
EOF == "EOF"
Skip == "Skip"
Semicolon == ";"
OpenCurlyBrace == "{"
CloseCurlyBrace == "}"
OpenParens == "("
CloseParens == ")"
Comma == ","
Dot == "."
OpenSquare == "["
CloseSquare == "]"
LetKeyword == "let"
DefKeyword == "def"
ReturnKeyword == "return"
IfKeyword == "if"
WhileKeyword == "while"
DoKeyword == "do"
ClassKeyword == "class"
ThisKeyword == "this"
ExtendsKeyword == "extends"
SuperKeyword == "super"
NewKeyword == "new"
ForKeyword == "for"
ElseKeyword == "else"
TrueKeyword == "true"
FalseKeyword == "false"
NullKeyword == "null"
Number == "Number"
String == "String"
Identifier == "Identifier"
EqualityOp == "EqualityOp"
SimpleAssign == "="
ComplexAssign == "ComplexAssign"
RelationalOp == "RelationalOp"
AndLogicalOp == "AndLogicalOp"
OrLogicalOp == "OrLogicalOp"
NotLogicalOp == "NotLogicalOp"
AdditiveOp == "AdditiveOp"
MultiplicativeOp == "MultiplicativeOp"

\* A *Token; NilTok is the nil pointer.
Token(type, value) == [Type |-> type, Value |-> value]

NilTok == [Type |-> "<nil>", Value |-> <<>>]

(***************************************************************************)
(* The rule table and the patterns of its regular expressions.  A pattern  *)
(* is a record; MatchLen gives the length of the match of the anchored     *)
(* pattern at the start of s, 0 when it does not match (no pattern of the  *)
(* table matches the empty string).                                        *)
(***************************************************************************)
\* ^c1c2.. : a literal string
PLit(str) == [p |-> "lit", str |-> str, cls |-> {}]
\* ^\bword\b
PKeyword(str) == [p |-> "kw", str |-> str, cls |-> {}]
\* ^[cls]+
PRun(cls) == [p |-> "run", str |-> <<>>, cls |-> cls]
\* ^[cls]tail
PClassThen(cls, str) == [p |-> "cls", str |-> str, cls |-> cls]
\* ^[cls]=?
PClassOptEq(cls) == [p |-> "clsopt", str |-> <<>>, cls |-> cls]
POther(name) == [p |-> name, str |-> <<>>, cls |-> {}]

\* Length of the longest prefix of s with no character of excl.
RECURSIVE RunLenNot(_, _)
RunLenNot(s, excl) ==
  IF s = <<>> \/ Head(s) \in excl THEN 0 ELSE 1 + RunLenNot(Tail(s), excl)

\* ^//.*   ('.' does not match a line break)
LineCommentLen(s) ==
  IF HasPrefix(s, <<"/", "/">>) THEN 2 + RunLenNot(Drop(s, 2), {"\n"}) ELSE 0

\* ^/\*[\s\S]*?\*/   (lazy: up to the first closing delimiter)
BlockCommentLen(s) ==
  IF HasPrefix(s, <<"/", "*">>) /\ IndexFrom(s, <<"*", "/">>, 3) # 0
  THEN IndexFrom(s, <<"*", "/">>, 3) + 1
  ELSE 0

\* ^"[^"]*"
DoubleQuotedLen(s) ==
  IF s # <<>> /\ Head(s) = "\"" /\ IndexFrom(s, <<"\"">>, 2) # 0
  THEN IndexFrom(s, <<"\"">>, 2)
  ELSE 0

\* ^'[^"]*'   (greedy: the last ' that no " precedes)
SingleQuotedLen(s) ==
  IF s # <<>> /\ Head(s) = "'"
  THEN LET body == RunLenNot(Tail(s), {"\""})
           ends == {j \in 2..(body + 1) : s[j] = "'"}
       IN  IF ends = {} THEN 0 ELSE CHOOSE j \in ends : \A k \in ends : k <= j
  ELSE 0

MatchLen(pat, s) ==
  CASE pat.p = "lit" -> IF HasPrefix(s, pat.str) THEN Len(pat.str) ELSE 0
    [] pat.p = "kw" ->
         IF /\ HasPrefix(s, pat.str)
            /\ (Len(s) = Len(pat.str) \/ s[Len(pat.str) + 1] \notin WordChars)
         THEN Len(pat.str) ELSE 0
    [] pat.p = "run" -> RunLen(s, pat.cls)
    [] pat.p = "cls" ->
         IF s # <<>> /\ Head(s) \in pat.cls /\ HasPrefix(Tail(s), pat.str)
         THEN 1 + Len(pat.str) ELSE 0
    [] pat.p = "clsopt" ->
         IF s # <<>> /\ Head(s) \in pat.cls
         THEN (IF HasPrefix(Tail(s), <<"=">>) THEN 2 ELSE 1) ELSE 0
    [] pat.p = "line" -> LineCommentLen(s)
    [] pat.p = "block" -> BlockCommentLen(s)
    [] pat.p = "dq" -> DoubleQuotedLen(s)
    [] pat.p = "sq" -> SingleQuotedLen(s)

Rule(type, pat) == [Type |-> type, Regexp |-> pat]

DefaultRules == <<
  Rule(Skip, PRun(SpaceChars)),
  Rule(Skip, POther("line")),
  Rule(Skip, POther("block")),
  Rule(Semicolon, PLit(<<";">>)),
  Rule(OpenCurlyBrace, PLit(<<"{">>)),
  Rule(CloseCurlyBrace, PLit(<<"}">>)),
  Rule(OpenParens, PLit(<<"(">>)),
  Rule(CloseParens, PLit(<<")">>)),
  Rule(Comma, PLit(<<",">>)),
  Rule(Dot, PLit(<<".">>)),
  Rule(OpenSquare, PLit(<<"[">>)),
  Rule(CloseSquare, PLit(<<"]">>)),
  Rule(LetKeyword, PKeyword(<<"l", "e", "t">>)),
  Rule(DefKeyword, PKeyword(<<"d", "e", "f">>)),
  Rule(ReturnKeyword, PKeyword(<<"r", "e", "t", "u", "r", "n">>)),
  Rule(IfKeyword, PKeyword(<<"i", "f">>)),
  Rule(WhileKeyword, PKeyword(<<"w", "h", "i", "l", "e">>)),
  Rule(DoKeyword, PKeyword(<<"d", "o">>)),
  Rule(ClassKeyword, PKeyword(<<"c", "l", "a", "s", "s">>)),
  Rule(ThisKeyword, PKeyword(<<"t", "h", "i", "s">>)),
  Rule(ExtendsKeyword, PKeyword(<<"e", "x", "t", "e", "n", "d", "s">>)),
  Rule(SuperKeyword, PKeyword(<<"s", "u", "p", "e", "r">>)),
  Rule(NewKeyword, PKeyword(<<"n", "e", "w">>)),
  Rule(ForKeyword, PKeyword(<<"f", "o", "r">>)),
  Rule(ElseKeyword, PKeyword(<<"e", "l", "s", "e">>)),
  Rule(TrueKeyword, PKeyword(<<"t", "r", "u", "e">>)),
  Rule(FalseKeyword, PKeyword(<<"f", "a", "l", "s", "e">>)),
  Rule(NullKeyword, PKeyword(<<"n", "u", "l", "l">>)),
  Rule(Number, PRun(Digits)),
  Rule(String, POther("dq")),
  Rule(String, POther("sq")),
  Rule(Identifier, PRun(WordChars)),
  Rule(EqualityOp, PClassThen({"=", "!"}, <<"=">>)),
  Rule(SimpleAssign, PLit(<<"=">>)),
  Rule(ComplexAssign, PClassThen({"+", "-", "*", "/"}, <<"=">>)),
  Rule(NotLogicalOp, PLit(<<"!">>)),
  Rule(AndLogicalOp, PLit(<<"&", "&">>)),
  Rule(OrLogicalOp, PLit(<<"|", "|">>)),
  Rule(RelationalOp, PClassOptEq({"<", ">"})),
  Rule(AdditiveOp, PClassThen({"+", "-"}, <<>>)),
  Rule(MultiplicativeOp, PClassThen({"*", "/"}, <<>>))
>>

(***************************************************************************)
(* Errors.  NoErr is the nil error.                                        *)
(***************************************************************************)
NoErr == [kind |-> "nil"]

\* tokenizer.ErrUnexpectedToken
LexError(position, codeString) ==
  [kind |-> "LexError", Position |-> position, CodeString |-> codeString]

ErrUnknownLiteral(type, value) ==
  [kind |-> "UnknownLiteral", Type |-> type, Value |-> value]

ErrUnexpectedEndOfInput(type) == [kind |-> "UnexpectedEndOfInput", Type |-> type]

ErrUnexpectedToken(type, expectedType, value) ==
  [kind |-> "UnexpectedToken", Type |-> type, ExpectedType |-> expectedType,
   Value |-> value]

ErrUnknownLogicalOp(op) == [kind |-> "UnknownLogicalOp", Op |-> op]

ErrUnknownBinaryOp(op) == [kind |-> "UnknownBinaryOp", Op |-> op]

ErrUnknownUnaryOp(op) == [kind |-> "UnknownUnaryOp", Op |-> op]

ErrUnknownAssignOp(op) == [kind |-> "UnknownAssignOp", Op |-> op]

ErrInvalidLvalue(node) == [kind |-> "InvalidLvalue", Node |-> node]

\* *strconv.NumError with Err = strconv.ErrRange, as ParseInt returns it
NumErrorRange(num) == [kind |-> "strconv.NumError", Num |-> num]

(***************************************************************************)
(* Tokenizer.NextToken: the result of one call made with the cursor at c,  *)
(* as [tok, err, cursor]; cursor is the cursor the call leaves behind.     *)
(***************************************************************************)
\* a faulty rule search that takes the last rule of rules[i..] that matches
LastMatch(rules, s, i) ==
  LET hits == {j \in i..Len(rules) : MatchLen(rules[j].Regexp, s) > 0}
  IN  IF hits = {} THEN 0 ELSE CHOOSE j \in hits : \A k \in hits : k <= j

\* Index of the first rule of rules[i..] that matches s, or 0.
RECURSIVE FirstMatch(_, _, _)
FirstMatch(rules, s, i) ==
  IF i > Len(rules) THEN 0
  ELSE IF MatchLen(rules[i].Regexp, s) > 0 THEN i
  ELSE FirstMatch(rules, s, i + 1)

RECURSIVE NextTokenStepsOver(_, _, _)
\* a faulty NextToken that moves the cursor over the character it could
\* not match
NextTokenStepsOver(rules, e, c) ==
  IF c >= Len(e)
  THEN [tok |-> Token(EOF, <<>>), err |-> NoErr, cursor |-> c]
  ELSE LET rest == Drop(e, c)
           i == FirstMatch(rules, rest, 1)
       IN  IF i = 0
           THEN [tok |-> NilTok, err |-> LexError(c, rest), cursor |-> c + 1]
           ELSE LET n == MatchLen(rules[i].Regexp, rest)
                IN  IF rules[i].Type = Skip
                    THEN NextTokenStepsOver(rules, e, c + n)
                    ELSE [tok |-> Token(rules[i].Type, Take(rest, n)),
                          err |-> NoErr, cursor |-> c + n]

\* a faulty NextToken that, having skipped, matches the rest without
\* looking for the end of the input again
NextTokenSkipOnce(rules, e, c) ==
  IF c >= Len(e)
  THEN [tok |-> Token(EOF, <<>>), err |-> NoErr, cursor |-> c]
  ELSE LET i == FirstMatch(rules, Drop(e, c), 1)
           c2 == IF i # 0 /\ rules[i].Type = Skip
                 THEN c + MatchLen(rules[i].Regexp, Drop(e, c)) ELSE c
           rest == Drop(e, c2)
           i2 == FirstMatch(rules, rest, 1)
       IN  IF i2 = 0
           THEN [tok |-> NilTok, err |-> LexError(c2, rest), cursor |-> c2]
           ELSE [tok |-> Token(rules[i2].Type,
                               Take(rest, MatchLen(rules[i2].Regexp, rest))),
                 err |-> NoErr,
                 cursor |-> c2 + MatchLen(rules[i2].Regexp, rest)]

RECURSIVE NextToken(_, _, _)
NextToken(rules, e, c) ==
  IF c >= Len(e)
  THEN [tok |-> Token(EOF, <<>>), err |-> NoErr, cursor |-> c]
  ELSE LET rest == Drop(e, c)
           i == FirstMatch(rules, rest, 1)
       IN  IF i = 0
           THEN [tok |-> NilTok, err |-> LexError(c, rest), cursor |-> c]
           ELSE LET n == MatchLen(rules[i].Regexp, rest)
                IN  IF rules[i].Type = Skip
                    THEN NextToken(rules, e, c + n)
                    ELSE [tok |-> Token(rules[i].Type, Take(rest, n)),
                          err |-> NoErr, cursor |-> c + n]

(***************************************************************************)
(* Tree nodes (ast.Builder).  NilNode is the nil ast.Node.  A Go slice is  *)
(* [isNil, elems], so that a nil slice and an empty one stay apart.        *)
(***************************************************************************)
NilNode == [type |-> "<nil>"]

NilSlice == [isNil |-> TRUE, elems |-> <<>>]

SliceOf(elems) == [isNil |-> FALSE, elems |-> elems]

SliceAppend(s, x) == [isNil |-> FALSE, elems |-> Append(s.elems, x)]

b_Program(body) == [type |-> "ProgramType", Body |-> body]

b_StringLit(s) == [type |-> "StringLitType", Value |-> s]

b_NumericLit(n) == [type |-> "NumericLitType", Value |-> n]

b_BoolLit(v) == [type |-> "BoolLitType", Value |-> v]

b_NullLit == [type |-> "NullLitType"]

b_ExprStmt(e) == [type |-> "ExprStmtType", Expr |-> e]

b_BlockStmt(body) == [type |-> "BlockStmtType", Body |-> body]

b_EmptyStmt == [type |-> "EmptyStmtType"]

b_BinaryExpr(op, left, right) ==
  [type |-> "BinaryExprType", Op |-> op, Left |-> left, Right |-> right]

b_UnaryExpr(op, arg) == [type |-> "UnaryExprType", Op |-> op, Arg |-> arg]

b_LogicalExpr(op, left, right) ==
  [type |-> "LogicalExprType", Op |-> op, Left |-> left, Right |-> right]

b_AssignExpr(op, left, right) ==
  [type |-> "AssignExprType", Op |-> op, Left |-> left, Right |-> right]

b_SeqExpr(body) == [type |-> "SeqExprType", Body |-> body]

b_Identifier(name) == [type |-> "IdentifierType", Name |-> name]

b_VarStmt(decl) == [type |-> "VarStmtType", Decls |-> decl]

b_VarDecl(id, init) == [type |-> "VarDeclType", ID |-> id, Init |-> init]

b_IfStmt(cond, cons, alt) ==
  [type |-> "IfStmtType", Cond |-> cond, Cons |-> cons, Alt |-> alt]

b_WhileStmt(cond, body) == [type |-> "WhileStmtType", Cond |-> cond, Body |-> body]

b_DoWhileStmt(cond, body) ==
  [type |-> "DoWhileStmtType", Cond |-> cond, Body |-> body]

b_ForStmt(init, cond, step, body) ==
  [type |-> "ForStmtType", Init |-> init, Cond |-> cond, Step |-> step,
   Body |-> body]

b_FuncDecl(name, params, body) ==
  [type |-> "FuncDeclType", Name |-> name, Params |-> params, Body |-> body]

b_ReturnStmt(arg) == [type |-> "ReturnStmtType", Arg |-> arg]

b_MemberExpr(computed, obj, prop) ==
  [type |-> "MemberExprType", Computed |-> computed, Obj |-> obj, Prop |-> prop]

b_CallExpr(callee, args) ==
  [type |-> "CallExprType", Callee |-> callee, Args |-> args]

b_ClassDecl(id, super, body) ==
  [type |-> "ClassDeclType", ID |-> id, Super |-> super, Body |-> body]

b_SuperCall == [type |-> "SuperCallType"]

b_NewExpr(callee, args) ==
  [type |-> "NewExprType", Callee |-> callee, Args |-> args]

b_ThisExpr == [type |-> "ThisExprType"]

(***************************************************************************)
(* Operator enumerations (internal/ast/node.go).  A table lists the        *)
(* strings in enum order; entry 1 is the Invalid value 0.                  *)
(***************************************************************************)
\* a faulty table of binary operators, without the division
binaryOpStringsNoDivide == <<
  <<"I", "n", "a", "v", "l", "i", "d", "B", "i", "n", "a", "r", "y", "O", "p">>,
  <<"+">>, <<"-">>, <<"*">>,
  <<">">>, <<"<">>, <<">", "=">>, <<"<", "=">>,
  <<"=", "=">>, <<"!", "=">> >>

binaryOpStrings == <<
  <<"I", "n", "a", "v", "l", "i", "d", "B", "i", "n", "a", "r", "y", "O", "p">>,
  <<"+">>, <<"-">>, <<"*">>, <<"/">>,
  <<">">>, <<"<">>, <<">", "=">>, <<"<", "=">>,
  <<"=", "=">>, <<"!", "=">> >>

assignOpStrings == <<
  <<"I", "n", "v", "a", "l", "i", "d", "A", "s", "s", "i", "g", "n", "O", "p">>,
  <<"=">>, <<"+", "=">>, <<"-", "=">>, <<"*", "=">>, <<"/", "=">> >>

logicalOpStrings == <<
  <<"I", "n", "v", "a", "l", "i", "d", "L", "o", "g", "i", "c", "a", "l", "O", "p">>,
  <<"&", "&">>, <<"|", "|">> >>

unaryOpStrings == <<
  <<"I", "n", "v", "a", "l", "i", "d", "U", "n", "a", "r", "y", "O", "p">>,
  <<"!">>, <<"-">> >>

\* The map built from a table: the enum value of v, 0 (Invalid) when absent.
OpFromString(table, v) ==
  IF \E i \in DOMAIN table : table[i] = v
  THEN (CHOOSE i \in DOMAIN table : table[i] = v) - 1
  ELSE 0

BinaryOpFromString(v) == OpFromString(binaryOpStrings, v)

AssignOpFromString(v) == OpFromString(assignOpStrings, v)

LogicalOpFromString(v) == OpFromString(logicalOpStrings, v)

UnaryOpFromString(v) == OpFromString(unaryOpStrings, v)

InvalidBinaryOp == 0
InvalidAssignOp == 0
InvalidLogicalOp == 0
InvalidUnaryOp == 0

(***************************************************************************)
(* strconv.ParseInt(s, 10, 64) on a string of digits.  The value is kept   *)
(* as its canonical decimal digits (no leading zeros).                     *)
(***************************************************************************)
RECURSIVE StripZeros(_)
StripZeros(s) ==
  IF Len(s) > 1 /\ Head(s) = "0" THEN StripZeros(Tail(s)) ELSE s

DigitVal(c) ==
  CASE c = "0" -> 0 [] c = "1" -> 1 [] c = "2" -> 2 [] c = "3" -> 3
    [] c = "4" -> 4 [] c = "5" -> 5 [] c = "6" -> 6 [] c = "7" -> 7
    [] c = "8" -> 8 [] c = "9" -> 9

\* a <= b for digit strings of one length
RECURSIVE DigitsLeq(_, _)
DigitsLeq(a, b) ==
  IF a = <<>> THEN TRUE
  ELSE IF DigitVal(Head(a)) # DigitVal(Head(b))
       THEN DigitVal(Head(a)) < DigitVal(Head(b))
       ELSE DigitsLeq(Tail(a), Tail(b))

\* 1<<63 - 1
MaxInt64 == <<"9", "2", "2", "3", "3", "7", "2", "0", "3", "6", "8", "5", "4",
              "7", "7", "5", "8", "0", "7">>

ParseInt(s) ==
  LET d == StripZeros(s)
  IN  IF Len(d) < Len(MaxInt64) \/ (Len(d) = Len(MaxInt64) /\ DigitsLeq(d, MaxInt64))
      THEN [n |-> d, err |-> NoErr]
      ELSE [n |-> MaxInt64, err |-> NumErrorRange(s)]

(***************************************************************************)
(* The call stack.  A frame is one active call: fn the function, pc the    *)
(* number of the point it resumes at (0 on entry), arg/arg2 its            *)
(* parameters, n1..n3, list and op its local variables.  ret holds what    *)
(* the last call returned: a node, a slice or a token, and the error.      *)
(***************************************************************************)
Frame(fn) ==
  [fn |-> fn, pc |-> 0, arg |-> "", arg2 |-> "", n1 |-> NilNode, n2 |-> NilNode,
   n3 |-> NilNode, list |-> NilSlice, op |-> 0]

FrameArg(fn, arg) == [Frame(fn) EXCEPT !.arg = arg]

\* a call of p.consume(tokType)
Consume(tokType) == FrameArg("consume", tokType)

RetNode(n) == [node |-> n, list |-> NilSlice, tok |-> NilTok, err |-> NoErr]

RetList(l) == [node |-> NilNode, list |-> l, tok |-> NilTok, err |-> NoErr]

RetTok(t) == [node |-> NilNode, list |-> NilSlice, tok |-> t, err |-> NoErr]

RetErr(e) == [node |-> NilNode, list |-> NilSlice, tok |-> NilTok, err |-> e]

Top == stack[Len(stack)]

(***************************************************************************)
(* What one step of a function does: it calls (the frame, updated, stays   *)
(* below the callee's), it returns, or it dereferences a nil lookahead.    *)
(***************************************************************************)
CallOut(f, pc, callee) ==
  [k |-> "call", self |-> [f EXCEPT !.pc = pc], callee |-> callee]

RetOut(r) == [k |-> "ret", r |-> r]

PanicOut == [k |-> "panic"]

\* return nil, err
FailOut(e) == RetOut(RetErr(e))

\* p.lookahead.Type is read: a nil lookahead is a nil pointer dereference
ReadLookahead(la, out) == IF la = NilTok THEN PanicOut ELSE out

\* if err != nil { return nil, err }, then the rest
OrFail(r, out) == IF r.err # NoErr THEN FailOut(r.err) ELSE out

Apply(out, la2, cursor2, nextCalls2, consumed2) ==
  /\ expr' = expr
  /\ lookahead' = la2
  /\ cursor' = cursor2
  /\ nextCalls' = nextCalls2
  /\ consumed' = consumed2
  /\ CASE out.k = "call" ->
            IF Len(stack) >= MaxStack
            THEN status' = "overflow" /\ UNCHANGED <<stack, ret>>
            ELSE /\ stack' = Append(Take(stack, Len(stack) - 1), out.self)
                                \o <<out.callee>>
                 /\ UNCHANGED <<status, ret>>
       [] out.k = "ret" ->
            /\ stack' = Take(stack, Len(stack) - 1)
            /\ ret' = out.r
            /\ status' = IF Len(stack) > 1 THEN "run"
                         ELSE IF out.r.err = NoErr THEN "ok" ELSE "err"
       [] out.k = "panic" -> status' = "panic" /\ UNCHANGED <<stack, ret>>

\* the function fn is the one running
Running(fn) == status = "run" /\ Top.fn = fn

\* a step that leaves the parser's and the lexer's fields alone
Pure(out) == Apply(out, lookahead, cursor, nextCalls, consumed)

(***************************************************************************)
(* Parse and consume: the two functions that call the tokenizer.           *)
(***************************************************************************)
Parse ==
  /\ Running("Parse")
  /\ IF Top.pc = 0
     THEN LET t == NextToken(DefaultRules, expr, cursor)
          IN  Apply(IF t.err # NoErr THEN FailOut(t.err)
                    ELSE CallOut(Top, 1, Frame("program")),
                    t.tok, t.cursor, nextCalls + 1, consumed)
     ELSE Apply(RetOut(ret), lookahead, cursor, nextCalls, consumed)

\* a faulty consume that drops the lookahead it did not expect
consumeSkipsMismatch ==
  /\ Running("consume")
  /\ LET token == lookahead
         tokType == Top.arg
         t == NextToken(DefaultRules, expr, cursor)
     IN  IF token = NilTok \/ token.Type = EOF
         THEN Apply(FailOut(ErrUnexpectedEndOfInput(tokType)),
                    lookahead, cursor, nextCalls, consumed)
         ELSE IF token.Type # tokType
         THEN Apply(FailOut(ErrUnexpectedToken(token.Type, tokType, token.Value)),
                    t.tok, t.cursor, nextCalls + 1, consumed)
         ELSE IF t.err # NoErr
         THEN Apply(FailOut(t.err), t.tok, t.cursor, nextCalls + 1, consumed)
         ELSE Apply(RetOut(RetTok(token)), t.tok, t.cursor,
                    nextCalls + 1, consumed + 1)

consume ==
  /\ Running("consume")
  /\ LET token == lookahead
         tokType == Top.arg
     IN  IF token = NilTok \/ token.Type = EOF
         THEN Apply(FailOut(ErrUnexpectedEndOfInput(tokType)),
                    lookahead, cursor, nextCalls, consumed)
         ELSE IF token.Type # tokType
         THEN Apply(FailOut(ErrUnexpectedToken(token.Type, tokType, token.Value)),
                    lookahead, cursor, nextCalls, consumed)
         ELSE LET t == NextToken(DefaultRules, expr, cursor)
              IN  IF t.err # NoErr
                  THEN Apply(FailOut(t.err), t.tok, t.cursor, nextCalls + 1, consumed)
                  ELSE Apply(RetOut(RetTok(token)), t.tok, t.cursor,
                             nextCalls + 1, consumed + 1)

(***************************************************************************)
(* Statements.                                                             *)
(***************************************************************************)
program ==
  /\ Running("program")
  /\ LET f == Top
         r == ret
     IN  Pure(
         IF f.pc = 0 THEN CallOut(f, 1, FrameArg("stmtList", EOF))
         ELSE OrFail(r, RetOut(RetNode(b_Program(r.list)))))

\* a faulty loop head that leaves the loop after the first statement
stmtListLoopOnce(f, la, list) == RetOut(RetList(list))

\* the head of stmtList's for loop, with statementList = list
stmtListLoop(f, la, list) ==
  IF la # NilTok /\ la.Type # f.arg
  THEN CallOut([f EXCEPT !.list = list], 2, Frame("stmt"))
  ELSE RetOut(RetList(list))

stmtList ==
  /\ Running("stmtList")
  /\ LET f == Top
         la == lookahead
         r == ret
     IN  Pure(
         CASE f.pc = 0 -> CallOut(f, 1, Frame("stmt"))
           [] f.pc = 1 -> OrFail(r, stmtListLoop(f, la, SliceOf(<<r.node>>)))
           [] f.pc = 2 -> OrFail(r, stmtListLoop(f, la, SliceAppend(f.list, r.node))))

stmt ==
  /\ Running("stmt")
  /\ LET f == Top
         la == lookahead
         r == ret
     IN  Pure(
         IF f.pc = 0
         THEN ReadLookahead(la,
                CASE la.Type = Semicolon -> CallOut(f, 1, Frame("emptyStmt"))
                  [] la.Type = OpenCurlyBrace -> CallOut(f, 1, Frame("blockStmt"))
                  [] la.Type = LetKeyword -> CallOut(f, 1, Frame("varStmt"))
                  [] la.Type = IfKeyword -> CallOut(f, 1, Frame("ifStmt"))
                  [] la.Type \in {WhileKeyword, DoKeyword, ForKeyword} ->
                       CallOut(f, 1, Frame("iterStmt"))
                  [] la.Type = DefKeyword -> CallOut(f, 1, Frame("funcDecl"))
                  [] la.Type = ClassKeyword -> CallOut(f, 1, Frame("classDecl"))
                  [] la.Type = ReturnKeyword -> CallOut(f, 1, Frame("returnStmt"))
                  [] OTHER -> CallOut(f, 1, Frame("exprStmt")))
         ELSE RetOut(r))

exprStmt ==
  /\ Running("exprStmt")
  /\ LET f == Top
         r == ret
     IN  Pure(
         CASE f.pc = 0 -> CallOut(f, 1, Frame("seqExpr"))
           [] f.pc = 1 -> OrFail(r, CallOut([f EXCEPT !.n1 = r.node], 2, Consume(Semicolon)))
           [] f.pc = 2 -> OrFail(r, RetOut(RetNode(b_ExprStmt(f.n1)))))

blockStmt ==
  /\ Running("blockStmt")
  /\ LET f == Top
         la == lookahead
         r == ret
     IN  Pure(
         CASE f.pc = 0 -> CallOut(f, 1, Consume(OpenCurlyBrace))
           [] f.pc = 1 ->
                OrFail(r, ReadLookahead(la,
                  IF la.Type # CloseCurlyBrace
                  THEN CallOut(f, 2, FrameArg("stmtList", CloseCurlyBrace))
                  ELSE CallOut(f, 3, Consume(CloseCurlyBrace))))
           [] f.pc = 2 ->
                OrFail(r, CallOut([f EXCEPT !.list = r.list], 3, Consume(CloseCurlyBrace)))
           [] f.pc = 3 -> OrFail(r, RetOut(RetNode(b_BlockStmt(f.list)))))

emptyStmt ==
  /\ Running("emptyStmt")
  /\ LET f == Top
         r == ret
     IN  Pure(
         IF f.pc = 0 THEN CallOut(f, 1, Consume(Semicolon))
         ELSE OrFail(r, RetOut(RetNode(b_EmptyStmt))))

varStmt ==
  /\ Running("varStmt")
  /\ LET f == Top
         r == ret
     IN  Pure(
         CASE f.pc = 0 -> CallOut(f, 1, Frame("varStmtInit"))
           [] f.pc = 1 -> OrFail(r, CallOut([f EXCEPT !.n1 = r.node], 2, Consume(Semicolon)))
           [] f.pc = 2 -> OrFail(r, RetOut(RetNode(f.n1))))

varStmtInit ==
  /\ Running("varStmtInit")
  /\ LET f == Top
         r == ret
     IN  Pure(
         CASE f.pc = 0 -> CallOut(f, 1, Consume(LetKeyword))
           [] f.pc = 1 -> OrFail(r, CallOut(f, 2, Frame("varDeclList")))
           [] f.pc = 2 -> OrFail(r, RetOut(RetNode(b_VarStmt(r.list)))))

\* a faulty ifStmt that leaves an else to an if statement it is the
\* consequent of
ifStmtElseToOuter ==
  /\ Running("ifStmt")
  /\ LET f == Top
         la == lookahead
         r == ret
     IN  Pure(
         CASE f.pc = 0 -> CallOut(f, 1, Consume(IfKeyword))
           [] f.pc = 1 -> OrFail(r, CallOut(f, 2, Consume(OpenParens)))
           [] f.pc = 2 -> OrFail(r, CallOut(f, 3, Frame("seqExpr")))
           [] f.pc = 3 -> OrFail(r, CallOut([f EXCEPT !.n1 = r.node], 4, Consume(CloseParens)))
           [] f.pc = 4 -> OrFail(r, CallOut(f, 5, Frame("stmt")))
           [] f.pc = 5 ->
                OrFail(r, ReadLookahead(la,
                  IF /\ la.Type = ElseKeyword
                     /\ ~\E i \in 1..(Len(stack) - 1) :
                          stack[i].fn = "ifStmt" /\ stack[i].pc = 5
                  THEN CallOut([f EXCEPT !.n2 = r.node], 6, Consume(ElseKeyword))
                  ELSE RetOut(RetNode(b_IfStmt(f.n1, r.node, NilNode)))))
           [] f.pc = 6 -> OrFail(r, CallOut(f, 7, Frame("stmt")))
           [] f.pc = 7 -> OrFail(r, RetOut(RetNode(b_IfStmt(f.n1, f.n2, r.node)))))

ifStmt ==
  /\ Running("ifStmt")
  /\ LET f == Top
         la == lookahead
         r == ret
     IN  Pure(
         CASE f.pc = 0 -> CallOut(f, 1, Consume(IfKeyword))
           [] f.pc = 1 -> OrFail(r, CallOut(f, 2, Consume(OpenParens)))
           [] f.pc = 2 -> OrFail(r, CallOut(f, 3, Frame("seqExpr")))
           [] f.pc = 3 -> OrFail(r, CallOut([f EXCEPT !.n1 = r.node], 4, Consume(CloseParens)))
           [] f.pc = 4 -> OrFail(r, CallOut(f, 5, Frame("stmt")))
           [] f.pc = 5 ->
                OrFail(r, ReadLookahead(la,
                  IF la.Type = ElseKeyword
                  THEN CallOut([f EXCEPT !.n2 = r.node], 6, Consume(ElseKeyword))
                  ELSE RetOut(RetNode(b_IfStmt(f.n1, r.node, NilNode)))))
           [] f.pc = 6 -> OrFail(r, CallOut(f, 7, Frame("stmt")))
           [] f.pc = 7 -> OrFail(r, RetOut(RetNode(b_IfStmt(f.n1, f.n2, r.node)))))

iterStmt ==
  /\ Running("iterStmt")
  /\ LET f == Top
         la == lookahead
         r == ret
     IN  Pure(
         IF f.pc = 0
         THEN ReadLookahead(la,
                CASE la.Type = WhileKeyword -> CallOut(f, 1, Frame("whileStmt"))
                  [] la.Type = DoKeyword -> CallOut(f, 1, Frame("doWhileStmt"))
                  [] la.Type = ForKeyword -> CallOut(f, 1, Frame("forStmt"))
                  [] OTHER -> FailOut(ErrUnexpectedToken(la.Type, "Iteration", la.Value)))
         ELSE RetOut(r))

funcDecl ==
  /\ Running("funcDecl")
  /\ LET f == Top
         la == lookahead
         r == ret
     IN  Pure(
         CASE f.pc = 0 -> CallOut(f, 1, Consume(DefKeyword))
           [] f.pc = 1 -> OrFail(r, CallOut(f, 2, Frame("identifier")))
           [] f.pc = 2 -> OrFail(r, CallOut([f EXCEPT !.n1 = r.node], 3, Consume(OpenParens)))
           [] f.pc = 3 ->
                OrFail(r, ReadLookahead(la,
                  IF la.Type # CloseParens
                  THEN CallOut(f, 4, Frame("formalParamList"))
                  ELSE CallOut(f, 5, Consume(CloseParens))))
           [] f.pc = 4 ->
                OrFail(r, CallOut([f EXCEPT !.list = r.list], 5, Consume(CloseParens)))
           [] f.pc = 5 -> OrFail(r, CallOut(f, 6, Frame("blockStmt")))
           [] f.pc = 6 -> OrFail(r, RetOut(RetNode(b_FuncDecl(f.n1, f.list, r.node)))))

formalParamList ==
  /\ Running("formalParamList")
  /\ LET f == Top
         la == lookahead
         r == ret
     IN  Pure(
         CASE f.pc = 0 -> CallOut(f, 1, Frame("identifier"))
           [] f.pc = 1 ->
                OrFail(r, ReadLookahead(la,
                  IF la.Type # Comma
                  THEN RetOut(RetList(SliceAppend(f.list, r.node)))
                  ELSE CallOut([f EXCEPT !.list = SliceAppend(f.list, r.node)], 2,
                               Consume(Comma))))
           [] f.pc = 2 -> OrFail(r, CallOut(f, 1, Frame("identifier"))))

returnStmt ==
  /\ Running("returnStmt")
  /\ LET f == Top
         la == lookahead
         r == ret
     IN  Pure(
         CASE f.pc = 0 -> CallOut(f, 1, Consume(ReturnKeyword))
           [] f.pc = 1 ->
                OrFail(r, ReadLookahead(la,
                  IF la.Type # Semicolon
                  THEN CallOut(f, 2, Frame("seqExpr"))
                  ELSE CallOut(f, 3, Consume(Semicolon))))
           [] f.pc = 2 -> OrFail(r, CallOut([f EXCEPT !.n1 = r.node], 3, Consume(Semicolon)))
           [] f.pc = 3 -> OrFail(r, RetOut(RetNode(b_ReturnStmt(f.n1)))))

classDecl ==
  /\ Running("classDecl")
  /\ LET f == Top
         la == lookahead
         r == ret
     IN  Pure(
         CASE f.pc = 0 -> CallOut(f, 1, Consume(ClassKeyword))
           [] f.pc = 1 -> OrFail(r, CallOut(f, 2, Frame("identifier")))
           [] f.pc = 2 ->
                OrFail(r, ReadLookahead(la,
                  IF la.Type = ExtendsKeyword
                  THEN CallOut([f EXCEPT !.n1 = r.node], 3, Frame("classExtends"))
                  ELSE CallOut([f EXCEPT !.n1 = r.node], 4, Frame("blockStmt"))))
           [] f.pc = 3 -> OrFail(r, CallOut([f EXCEPT !.n2 = r.node], 4, Frame("blockStmt")))
           [] f.pc = 4 -> OrFail(r, RetOut(RetNode(b_ClassDecl(f.n1, f.n2, r.node)))))

classExtends ==
  /\ Running("classExtends")
  /\ LET f == Top
         r == ret
     IN  Pure(
         CASE f.pc = 0 -> CallOut(f, 1, Consume(ExtendsKeyword))
           [] f.pc = 1 -> OrFail(r, CallOut(f, 2, Frame("identifier")))
           [] f.pc = 2 -> RetOut(r))

whileStmt ==
  /\ Running("whileStmt")
  /\ LET f == Top
         r == ret
     IN  Pure(
         CASE f.pc = 0 -> CallOut(f, 1, Consume(WhileKeyword))
           [] f.pc = 1 -> OrFail(r, CallOut(f, 2, Consume(OpenParens)))
           [] f.pc = 2 -> OrFail(r, CallOut(f, 3, Frame("seqExpr")))
           [] f.pc = 3 -> OrFail(r, CallOut([f EXCEPT !.n1 = r.node], 4, Consume(CloseParens)))
           [] f.pc = 4 -> OrFail(r, CallOut(f, 5, Frame("stmt")))
           [] f.pc = 5 -> OrFail(r, RetOut(RetNode(b_WhileStmt(f.n1, r.node)))))

doWhileStmt ==
  /\ Running("doWhileStmt")
  /\ LET f == Top
         r == ret
     IN  Pure(
         CASE f.pc = 0 -> CallOut(f, 1, Consume(DoKeyword))
           [] f.pc = 1 -> OrFail(r, CallOut(f, 2, Frame("stmt")))
           [] f.pc = 2 -> OrFail(r, CallOut([f EXCEPT !.n2 = r.node], 3, Consume(WhileKeyword)))
           [] f.pc = 3 -> OrFail(r, CallOut(f, 4, Consume(OpenParens)))
           [] f.pc = 4 -> OrFail(r, CallOut(f, 5, Frame("seqExpr")))
           [] f.pc = 5 -> OrFail(r, CallOut([f EXCEPT !.n1 = r.node], 6, Consume(CloseParens)))
           [] f.pc = 6 -> OrFail(r, CallOut(f, 7, Consume(Semicolon)))
           [] f.pc = 7 -> OrFail(r, RetOut(RetNode(b_DoWhileStmt(f.n1, f.n2)))))

\* a faulty forStmt that reads a condition whether or not one is written
forStmtCondAlways ==
  /\ Running("forStmt")
  /\ LET f == Top
         la == lookahead
         r == ret
     IN  Pure(
         CASE f.pc = 0 -> CallOut(f, 1, Consume(ForKeyword))
           [] f.pc = 1 -> OrFail(r, CallOut(f, 2, Consume(OpenParens)))
           [] f.pc = 2 ->
                OrFail(r, ReadLookahead(la,
                  IF la.Type # Semicolon
                  THEN CallOut(f, 3, Frame("forStmtInit"))
                  ELSE CallOut(f, 4, Consume(Semicolon))))
           [] f.pc = 3 -> OrFail(r, CallOut([f EXCEPT !.n1 = r.node], 4, Consume(Semicolon)))
           [] f.pc = 4 -> OrFail(r, CallOut(f, 5, Frame("seqExpr")))
           [] f.pc = 5 -> OrFail(r, CallOut([f EXCEPT !.n2 = r.node], 6, Consume(Semicolon)))
           [] f.pc = 6 ->
                OrFail(r, ReadLookahead(la,
                  IF la.Type # CloseParens
                  THEN CallOut(f, 7, Frame("seqExpr"))
                  ELSE CallOut(f, 8, Consume(CloseParens))))
           [] f.pc = 7 -> OrFail(r, CallOut([f EXCEPT !.n3 = r.node], 8, Consume(CloseParens)))
           [] f.pc = 8 -> OrFail(r, CallOut(f, 9, Frame("stmt")))
           [] f.pc = 9 -> OrFail(r, RetOut(RetNode(b_ForStmt(f.n1, f.n2, f.n3, r.node)))))

forStmt ==
  /\ Running("forStmt")
  /\ LET f == Top
         la == lookahead
         r == ret
     IN  Pure(
         CASE f.pc = 0 -> CallOut(f, 1, Consume(ForKeyword))
           [] f.pc = 1 -> OrFail(r, CallOut(f, 2, Consume(OpenParens)))
           [] f.pc = 2 ->
                OrFail(r, ReadLookahead(la,
                  IF la.Type # Semicolon
                  THEN CallOut(f, 3, Frame("forStmtInit"))
                  ELSE CallOut(f, 4, Consume(Semicolon))))
           [] f.pc = 3 -> OrFail(r, CallOut([f EXCEPT !.n1 = r.node], 4, Consume(Semicolon)))
           [] f.pc = 4 ->
                OrFail(r, ReadLookahead(la,
                  IF la.Type # Semicolon
                  THEN CallOut(f, 5, Frame("seqExpr"))
                  ELSE CallOut(f, 6, Consume(Semicolon))))
           [] f.pc = 5 -> OrFail(r, CallOut([f EXCEPT !.n2 = r.node], 6, Consume(Semicolon)))
           [] f.pc = 6 ->
                OrFail(r, ReadLookahead(la,
                  IF la.Type # CloseParens
                  THEN CallOut(f, 7, Frame("seqExpr"))
                  ELSE CallOut(f, 8, Consume(CloseParens))))
           [] f.pc = 7 -> OrFail(r, CallOut([f EXCEPT !.n3 = r.node], 8, Consume(CloseParens)))
           [] f.pc = 8 -> OrFail(r, CallOut(f, 9, Frame("stmt")))
           [] f.pc = 9 -> OrFail(r, RetOut(RetNode(b_ForStmt(f.n1, f.n2, f.n3, r.node)))))

forStmtInit ==
  /\ Running("forStmtInit")
  /\ LET f == Top
         la == lookahead
         r == ret
     IN  Pure(
         IF f.pc = 0
         THEN ReadLookahead(la,
                IF la.Type = LetKeyword
                THEN CallOut(f, 1, Frame("varStmtInit"))
                ELSE CallOut(f, 1, Frame("seqExpr")))
         ELSE RetOut(r))

\* pc 2: the result of consume(Comma) is discarded
varDeclList ==
  /\ Running("varDeclList")
  /\ LET f == Top
         la == lookahead
         r == ret
     IN  Pure(
         CASE f.pc = 0 -> CallOut(f, 1, Frame("varDecl"))
           [] f.pc = 1 ->
                OrFail(r, ReadLookahead(la,
                  IF la.Type # Comma
                  THEN RetOut(RetList(SliceAppend(f.list, r.node)))
                  ELSE CallOut([f EXCEPT !.list = SliceAppend(f.list, r.node)], 2,
                               Consume(Comma))))
           [] f.pc = 2 -> CallOut(f, 1, Frame("varDecl")))

\* a faulty varDecl that gives a declaration without initializer the
\* null literal as its init
varDeclNullInit ==
  /\ Running("varDecl")
  /\ LET f == Top
         la == lookahead
         r == ret
     IN  Pure(
         CASE f.pc = 0 -> CallOut(f, 1, Frame("identifier"))
           [] f.pc = 1 ->
                OrFail(r, ReadLookahead(la,
                  IF la.Type # Comma /\ la.Type # Semicolon
                  THEN CallOut([f EXCEPT !.n1 = r.node], 2, Frame("varInit"))
                  ELSE RetOut(RetNode(b_VarDecl(r.node, b_NullLit)))))
           [] f.pc = 2 -> OrFail(r, RetOut(RetNode(b_VarDecl(f.n1, r.node)))))

varDecl ==
  /\ Running("varDecl")
  /\ LET f == Top
         la == lookahead
         r == ret
     IN  Pure(
         CASE f.pc = 0 -> CallOut(f, 1, Frame("identifier"))
           [] f.pc = 1 ->
                OrFail(r, ReadLookahead(la,
                  IF la.Type # Comma /\ la.Type # Semicolon
                  THEN CallOut([f EXCEPT !.n1 = r.node], 2, Frame("varInit"))
                  ELSE RetOut(RetNode(b_VarDecl(r.node, NilNode)))))
           [] f.pc = 2 -> OrFail(r, RetOut(RetNode(b_VarDecl(f.n1, r.node)))))

varInit ==
  /\ Running("varInit")
  /\ LET f == Top
         r == ret
     IN  Pure(
         CASE f.pc = 0 -> CallOut(f, 1, Consume(SimpleAssign))
           [] f.pc = 1 -> OrFail(r, CallOut(f, 2, Frame("assignExpr")))
           [] f.pc = 2 -> RetOut(r))

(***************************************************************************)
(* Expressions.                                                            *)
(***************************************************************************)
\* pc 2: the result of consume(Comma) is discarded
\* a faulty seqExpr that wraps a single expression as well
seqExprAlwaysWraps ==
  /\ Running("seqExpr")
  /\ LET f == Top
         la == lookahead
         r == ret
     IN  Pure(
         CASE f.pc = 0 -> CallOut(f, 1, Frame("expr"))
           [] f.pc = 1 ->
                OrFail(r, ReadLookahead(la,
                  LET body == SliceAppend(f.list, r.node)
                  IN  IF la.Type # Comma
                      THEN RetOut(RetNode(b_SeqExpr(body)))
                      ELSE CallOut([f EXCEPT !.list = body], 2, Consume(Comma))))
           [] f.pc = 2 -> CallOut(f, 1, Frame("expr")))

seqExpr ==
  /\ Running("seqExpr")
  /\ LET f == Top
         la == lookahead
         r == ret
     IN  Pure(
         CASE f.pc = 0 -> CallOut(f, 1, Frame("expr"))
           [] f.pc = 1 ->
                OrFail(r, ReadLookahead(la,
                  LET body == SliceAppend(f.list, r.node)
                  IN  IF la.Type # Comma
                      THEN IF Len(body.elems) = 1
                           THEN RetOut(RetNode(body.elems[1]))
                           ELSE RetOut(RetNode(b_SeqExpr(body)))
                      ELSE CallOut([f EXCEPT !.list = body], 2, Consume(Comma))))
           [] f.pc = 2 -> CallOut(f, 1, Frame("expr")))

expr_a ==
  /\ Running("expr")
  /\ LET f == Top
         r == ret
     IN  Pure(
         IF f.pc = 0 THEN CallOut(f, 1, Frame("assignExpr")) ELSE RetOut(r))

\* a faulty check that lets every node through as an assignment target
checkAnyAssignTarget(n) == NoErr

checkValidAssignTarget(n) ==
  IF n.type \in {"IdentifierType", "MemberExprType"} THEN NoErr
  ELSE ErrInvalidLvalue(n)

\* a faulty assignExpr whose right operand is one logicalOrExpr, so that
\* a second assignment operator is left unread
assignExprFlat ==
  /\ Running("assignExpr")
  /\ LET f == Top
         la == lookahead
         r == ret
     IN  Pure(
         CASE f.pc = 0 -> CallOut(f, 1, Frame("logicalOrExpr"))
           [] f.pc = 1 ->
                OrFail(r, ReadLookahead(la,
                  IF la.Type # SimpleAssign /\ la.Type # ComplexAssign
                  THEN RetOut(RetNode(r.node))
                  ELSE CallOut([f EXCEPT !.n1 = r.node], 2, Frame("assignOp"))))
           [] f.pc = 2 ->
                OrFail(r,
                  LET op == AssignOpFromString(r.tok.Value)
                  IN  IF op = InvalidAssignOp
                      THEN FailOut(ErrUnknownAssignOp(r.tok.Value))
                      ELSE IF checkValidAssignTarget(f.n1) # NoErr
                      THEN FailOut(checkValidAssignTarget(f.n1))
                      ELSE CallOut([f EXCEPT !.op = op], 3, Frame("logicalOrExpr")))
           [] f.pc = 3 -> OrFail(r, RetOut(RetNode(b_AssignExpr(f.op, f.n1, r.node)))))

assignExpr ==
  /\ Running("assignExpr")
  /\ LET f == Top
         la == lookahead
         r == ret
     IN  Pure(
         CASE f.pc = 0 -> CallOut(f, 1, Frame("logicalOrExpr"))
           [] f.pc = 1 ->
                OrFail(r, ReadLookahead(la,
                  IF la.Type # SimpleAssign /\ la.Type # ComplexAssign
                  THEN RetOut(RetNode(r.node))
                  ELSE CallOut([f EXCEPT !.n1 = r.node], 2, Frame("assignOp"))))
           [] f.pc = 2 ->
                OrFail(r,
                  LET op == AssignOpFromString(r.tok.Value)
                  IN  IF op = InvalidAssignOp
                      THEN FailOut(ErrUnknownAssignOp(r.tok.Value))
                      ELSE IF checkValidAssignTarget(f.n1) # NoErr
                      THEN FailOut(checkValidAssignTarget(f.n1))
                      ELSE CallOut([f EXCEPT !.op = op], 3, Frame("assignExpr")))
           [] f.pc = 3 -> OrFail(r, RetOut(RetNode(b_AssignExpr(f.op, f.n1, r.node)))))

assignOp ==
  /\ Running("assignOp")
  /\ LET f == Top
         la == lookahead
         r == ret
     IN  Pure(
         IF f.pc = 0
         THEN ReadLookahead(la,
                IF la.Type = SimpleAssign
                THEN CallOut(f, 1, Consume(SimpleAssign))
                ELSE CallOut(f, 1, Consume(ComplexAssign)))
         ELSE RetOut(r))

identifier ==
  /\ Running("identifier")
  /\ LET f == Top
         r == ret
     IN  Pure(
         IF f.pc = 0 THEN CallOut(f, 1, Consume(Identifier))
         ELSE OrFail(r, RetOut(RetNode(b_Identifier(r.tok.Value)))))

thisExpr ==
  /\ Running("thisExpr")
  /\ LET f == Top
         r == ret
     IN  Pure(
         IF f.pc = 0 THEN CallOut(f, 1, Consume(ThisKeyword))
         ELSE OrFail(r, RetOut(RetNode(b_ThisExpr))))

superCall ==
  /\ Running("superCall")
  /\ LET f == Top
         r == ret
     IN  Pure(
         IF f.pc = 0 THEN CallOut(f, 1, Consume(SuperKeyword))
         ELSE OrFail(r, RetOut(RetNode(b_SuperCall))))

\* a call of p.binaryExpr(buildFunc, tokenType) or p.logicalExpr(...)
Climb(fn, buildFunc, tokenType) ==
  [Frame(fn) EXCEPT !.arg = buildFunc, !.arg2 = tokenType]

logicalOrExpr ==
  /\ Running("logicalOrExpr")
  /\ LET f == Top
         r == ret
     IN  Pure(
         IF f.pc = 0
         THEN CallOut(f, 1, Climb("logicalExpr", "logicalAndExpr", OrLogicalOp))
         ELSE RetOut(r))

logicalAndExpr ==
  /\ Running("logicalAndExpr")
  /\ LET f == Top
         r == ret
     IN  Pure(
         IF f.pc = 0
         THEN CallOut(f, 1, Climb("logicalExpr", "equalExpr", AndLogicalOp))
         ELSE RetOut(r))

\* a faulty equalExpr that builds on addExpr, leaving out the relational
\* level
equalExprOverAddExpr ==
  /\ Running("equalExpr")
  /\ LET f == Top
         r == ret
     IN  Pure(
         IF f.pc = 0
         THEN CallOut(f, 1, Climb("binaryExpr", "addExpr", EqualityOp))
         ELSE RetOut(r))

equalExpr ==
  /\ Running("equalExpr")
  /\ LET f == Top
         r == ret
     IN  Pure(
         IF f.pc = 0
         THEN CallOut(f, 1, Climb("binaryExpr", "relExpr", EqualityOp))
         ELSE RetOut(r))

relExpr ==
  /\ Running("relExpr")
  /\ LET f == Top
         r == ret
     IN  Pure(
         IF f.pc = 0
         THEN CallOut(f, 1, Climb("binaryExpr", "addExpr", RelationalOp))
         ELSE RetOut(r))

addExpr ==
  /\ Running("addExpr")
  /\ LET f == Top
         r == ret
     IN  Pure(
         IF f.pc = 0
         THEN CallOut(f, 1, Climb("binaryExpr", "multExpr", AdditiveOp))
         ELSE RetOut(r))

multExpr ==
  /\ Running("multExpr")
  /\ LET f == Top
         r == ret
     IN  Pure(
         IF f.pc = 0
         THEN CallOut(f, 1, Climb("binaryExpr", "unaryExpr", MultiplicativeOp))
         ELSE RetOut(r))

\* the head of binaryExpr's for loop, with the variable left = left
binaryExprLoop(f, la, left) ==
  ReadLookahead(la,
    IF la.Type = f.arg2
    THEN CallOut([f EXCEPT !.n1 = left], 2, Consume(f.arg2))
    ELSE RetOut(RetNode(left)))

\* a faulty binaryExpr that parses its right operand by calling itself, so
\* that the operators of a level fold to the right
binaryExprRightRecursive ==
  /\ Running("binaryExpr")
  /\ LET f == Top
         la == lookahead
         r == ret
     IN  Pure(
         CASE f.pc = 0 -> CallOut(f, 1, Frame(f.arg))
           [] f.pc = 1 -> OrFail(r, binaryExprLoop(f, la, r.node))
           [] f.pc = 2 ->
                OrFail(r,
                  LET op == BinaryOpFromString(r.tok.Value)
                  IN  IF op = InvalidBinaryOp
                      THEN FailOut(ErrUnknownBinaryOp(r.tok.Value))
                      ELSE CallOut([f EXCEPT !.op = op], 3,
                                   Climb("binaryExpr", f.arg, f.arg2)))
           [] f.pc = 3 ->
                OrFail(r, binaryExprLoop(f, la, b_BinaryExpr(f.op, f.n1, r.node))))

binaryExpr ==
  /\ Running("binaryExpr")
  /\ LET f == Top
         la == lookahead
         r == ret
     IN  Pure(
         CASE f.pc = 0 -> CallOut(f, 1, Frame(f.arg))
           [] f.pc = 1 -> OrFail(r, binaryExprLoop(f, la, r.node))
           [] f.pc = 2 ->
                OrFail(r,
                  LET op == BinaryOpFromString(r.tok.Value)
                  IN  IF op = InvalidBinaryOp
                      THEN FailOut(ErrUnknownBinaryOp(r.tok.Value))
                      ELSE CallOut([f EXCEPT !.op = op], 3, Frame(f.arg)))
           [] f.pc = 3 ->
                OrFail(r, binaryExprLoop(f, la, b_BinaryExpr(f.op, f.n1, r.node))))

\* the head of logicalExpr's for loop, with the variable left = left
logicalExprLoop(f, la, left) ==
  ReadLookahead(la,
    IF la.Type = f.arg2
    THEN CallOut([f EXCEPT !.n1 = left], 2, Consume(f.arg2))
    ELSE RetOut(RetNode(left)))

logicalExpr ==
  /\ Running("logicalExpr")
  /\ LET f == Top
         la == lookahead
         r == ret
     IN  Pure(
         CASE f.pc = 0 -> CallOut(f, 1, Frame(f.arg))
           [] f.pc = 1 -> OrFail(r, logicalExprLoop(f, la, r.node))
           [] f.pc = 2 ->
                OrFail(r,
                  LET op == LogicalOpFromString(r.tok.Value)
                  IN  IF op = InvalidLogicalOp
                      THEN FailOut(ErrUnknownLogicalOp(r.tok.Value))
                      ELSE CallOut([f EXCEPT !.op = op], 3, Frame(f.arg)))
           [] f.pc = 3 ->
                OrFail(r, logicalExprLoop(f, la, b_LogicalExpr(f.op, f.n1, r.node))))

unaryExpr ==
  /\ Running("unaryExpr")
  /\ LET f == Top
         la == lookahead
         r == ret
     IN  Pure(
         CASE f.pc = 0 ->
                ReadLookahead(la,
                  CASE la.Type = AdditiveOp -> CallOut(f, 1, Consume(AdditiveOp))
                    [] la.Type = NotLogicalOp -> CallOut(f, 1, Consume(NotLogicalOp))
                    [] OTHER -> CallOut(f, 3, Frame("leftHandSideExpr")))
           [] f.pc = 1 ->
                OrFail(r,
                  LET op == UnaryOpFromString(r.tok.Value)
                  IN  IF op = InvalidUnaryOp
                      THEN FailOut(ErrUnknownUnaryOp(r.tok.Value))
                      ELSE CallOut([f EXCEPT !.op = op], 2, Frame("unaryExpr")))
           [] f.pc = 2 -> OrFail(r, RetOut(RetNode(b_UnaryExpr(f.op, r.node))))
           [] f.pc = 3 -> RetOut(r))

leftHandSideExpr ==
  /\ Running("leftHandSideExpr")
  /\ LET f == Top
         r == ret
     IN  Pure(
         IF f.pc = 0 THEN CallOut(f, 1, Frame("callMemberExpr")) ELSE RetOut(r))

\* a call of p.callExpr(callee)
CallExprFrame(callee) == [Frame("callExpr") EXCEPT !.n1 = callee]

\* a faulty callMemberExpr that, like a member, lets super stand without
\* an argument list
callMemberExprBareSuper ==
  /\ Running("callMemberExpr")
  /\ LET f == Top
         la == lookahead
         r == ret
     IN  Pure(
         CASE f.pc = 0 ->
                ReadLookahead(la,
                  IF la.Type = SuperKeyword
                  THEN CallOut(f, 3, Frame("superCall"))
                  ELSE CallOut(f, 3, Frame("memberExpr")))
           [] f.pc = 1 -> OrFail(r, CallOut(f, 2, CallExprFrame(r.node)))
           [] f.pc = 2 -> RetOut(r)
           [] f.pc = 3 ->
                OrFail(r, ReadLookahead(la,
                  IF la.Type = OpenParens
                  THEN CallOut(f, 2, CallExprFrame(r.node))
                  ELSE RetOut(RetNode(r.node)))))

callMemberExpr ==
  /\ Running("callMemberExpr")
  /\ LET f == Top
         la == lookahead
         r == ret
     IN  Pure(
         CASE f.pc = 0 ->
                ReadLookahead(la,
                  IF la.Type = SuperKeyword
                  THEN CallOut(f, 1, Frame("superCall"))
                  ELSE CallOut(f, 3, Frame("memberExpr")))
           [] f.pc = 1 -> OrFail(r, CallOut(f, 2, CallExprFrame(r.node)))
           [] f.pc = 2 -> RetOut(r)
           [] f.pc = 3 ->
                OrFail(r, ReadLookahead(la,
                  IF la.Type = OpenParens
                  THEN CallOut(f, 2, CallExprFrame(r.node))
                  ELSE RetOut(RetNode(r.node)))))

\* a faulty callExpr that goes on with the accessors that follow the call,
\* as memberExpr does after its primary expression
callExprThenMember ==
  /\ Running("callExpr")
  /\ LET f == Top
         la == lookahead
         r == ret
     IN  Pure(
         CASE f.pc = 0 -> CallOut(f, 1, Frame("callArgs"))
           [] f.pc = 1 ->
                OrFail(r, ReadLookahead(la,
                  LET call == b_CallExpr(f.n1, r.list)
                      member == [Frame("memberExpr") EXCEPT !.n1 = call]
                  IN  CASE la.Type = OpenParens ->
                             CallOut(f, 2, CallExprFrame(call))
                        [] la.Type = Dot -> CallOut(member, 2, Consume(Dot))
                        [] la.Type = OpenSquare ->
                             CallOut(member, 4, Consume(OpenSquare))
                        [] OTHER -> RetOut(RetNode(call))))
           [] f.pc = 2 -> OrFail(r, RetOut(RetNode(r.node))))

\* a faulty callExpr that reads one argument list and stops
callExprOnce ==
  /\ Running("callExpr")
  /\ LET f == Top
         la == lookahead
         r == ret
     IN  Pure(
         CASE f.pc = 0 -> CallOut(f, 1, Frame("callArgs"))
           [] f.pc = 1 ->
                OrFail(r, ReadLookahead(la,
                  RetOut(RetNode(b_CallExpr(f.n1, r.list)))))
           [] f.pc = 2 -> OrFail(r, RetOut(RetNode(r.node))))

callExpr ==
  /\ Running("callExpr")
  /\ LET f == Top
         la == lookahead
         r == ret
     IN  Pure(
         CASE f.pc = 0 -> CallOut(f, 1, Frame("callArgs"))
           [] f.pc = 1 ->
                OrFail(r, ReadLookahead(la,
                  IF la.Type = OpenParens
                  THEN CallOut(f, 2, CallExprFrame(b_CallExpr(f.n1, r.list)))
                  ELSE RetOut(RetNode(b_CallExpr(f.n1, r.list)))))
           [] f.pc = 2 -> OrFail(r, RetOut(RetNode(r.node))))

newExpr ==
  /\ Running("newExpr")
  /\ LET f == Top
         r == ret
     IN  Pure(
         CASE f.pc = 0 -> CallOut(f, 1, Consume(NewKeyword))
           [] f.pc = 1 -> OrFail(r, CallOut(f, 2, Frame("memberExpr")))
           [] f.pc = 2 -> OrFail(r, CallOut([f EXCEPT !.n1 = r.node], 3, Frame("callArgs")))
           [] f.pc = 3 -> OrFail(r, RetOut(RetNode(b_NewExpr(f.n1, r.list)))))

\* a faulty callArgs whose argument list starts as an empty sequence
callArgsEmptyList ==
  /\ Running("callArgs")
  /\ LET f == Top
         la == lookahead
         r == ret
     IN  Pure(
         CASE f.pc = 0 -> CallOut(f, 1, Consume(OpenParens))
           [] f.pc = 1 ->
                OrFail(r, ReadLookahead(la,
                  IF la.Type # CloseParens
                  THEN CallOut(f, 2, Frame("argList"))
                  ELSE CallOut([f EXCEPT !.list = SliceOf(<<>>)], 3,
                               Consume(CloseParens))))
           [] f.pc = 2 -> OrFail(r, CallOut([f EXCEPT !.list = r.list], 3, Consume(CloseParens)))
           [] f.pc = 3 -> OrFail(r, RetOut(RetList(f.list))))

callArgs ==
  /\ Running("callArgs")
  /\ LET f == Top
         la == lookahead
         r == ret
     IN  Pure(
         CASE f.pc = 0 -> CallOut(f, 1, Consume(OpenParens))
           [] f.pc = 1 ->
                OrFail(r, ReadLookahead(la,
                  IF la.Type # CloseParens
                  THEN CallOut(f, 2, Frame("argList"))
                  ELSE CallOut(f, 3, Consume(CloseParens))))
           [] f.pc = 2 -> OrFail(r, CallOut([f EXCEPT !.list = r.list], 3, Consume(CloseParens)))
           [] f.pc = 3 -> OrFail(r, RetOut(RetList(f.list))))

argList ==
  /\ Running("argList")
  /\ LET f == Top
         la == lookahead
         r == ret
     IN  Pure(
         CASE f.pc = 0 -> CallOut(f, 1, Frame("assignExpr"))
           [] f.pc = 1 ->
                OrFail(r, ReadLookahead(la,
                  IF la.Type # Comma
                  THEN RetOut(RetList(SliceAppend(f.list, r.node)))
                  ELSE CallOut([f EXCEPT !.list = SliceAppend(f.list, r.node)], 2,
                               Consume(Comma))))
           [] f.pc = 2 -> OrFail(r, CallOut(f, 1, Frame("assignExpr"))))

\* the head of memberExpr's for loop, with the variable obj = obj
memberExprLoop(f, la, obj) ==
  ReadLookahead(la,
    IF la.Type = Dot
    THEN CallOut([f EXCEPT !.n1 = obj], 2, Consume(Dot))
    ELSE IF la.Type = OpenSquare
    THEN CallOut([f EXCEPT !.n1 = obj], 4, Consume(OpenSquare))
    ELSE RetOut(RetNode(obj)))

\* a faulty memberExpr that marks .name as computed and [expr] as not
memberExprFlagsSwapped ==
  /\ Running("memberExpr")
  /\ LET f == Top
         la == lookahead
         r == ret
     IN  Pure(
         CASE f.pc = 0 -> CallOut(f, 1, Frame("primaryExpr"))
           [] f.pc = 1 -> OrFail(r, memberExprLoop(f, la, r.node))
           [] f.pc = 2 -> OrFail(r, CallOut(f, 3, Frame("identifier")))
           [] f.pc = 3 -> OrFail(r, memberExprLoop(f, la, b_MemberExpr(TRUE, f.n1, r.node)))
           [] f.pc = 4 -> OrFail(r, CallOut(f, 5, Frame("seqExpr")))
           [] f.pc = 5 -> OrFail(r, CallOut([f EXCEPT !.n2 = r.node], 6, Consume(CloseSquare)))
           [] f.pc = 6 -> OrFail(r, memberExprLoop(f, la, b_MemberExpr(FALSE, f.n1, f.n2))))

memberExpr ==
  /\ Running("memberExpr")
  /\ LET f == Top
         la == lookahead
         r == ret
     IN  Pure(
         CASE f.pc = 0 -> CallOut(f, 1, Frame("primaryExpr"))
           [] f.pc = 1 -> OrFail(r, memberExprLoop(f, la, r.node))
           [] f.pc = 2 -> OrFail(r, CallOut(f, 3, Frame("identifier")))
           [] f.pc = 3 -> OrFail(r, memberExprLoop(f, la, b_MemberExpr(FALSE, f.n1, r.node)))
           [] f.pc = 4 -> OrFail(r, CallOut(f, 5, Frame("seqExpr")))
           [] f.pc = 5 -> OrFail(r, CallOut([f EXCEPT !.n2 = r.node], 6, Consume(CloseSquare)))
           [] f.pc = 6 -> OrFail(r, memberExprLoop(f, la, b_MemberExpr(TRUE, f.n1, f.n2))))

isLiteral(t) == t \in {String, Number, TrueKeyword, FalseKeyword, NullKeyword}

primaryExpr ==
  /\ Running("primaryExpr")
  /\ LET f == Top
         la == lookahead
         r == ret
     IN  Pure(
         IF f.pc = 0
         THEN ReadLookahead(la,
                IF isLiteral(la.Type) THEN CallOut(f, 1, Frame("literal"))
                ELSE CASE la.Type = OpenParens -> CallOut(f, 1, Frame("parensExpr"))
                       [] la.Type = Identifier -> CallOut(f, 1, Frame("identifier"))
                       [] la.Type = ThisKeyword -> CallOut(f, 1, Frame("thisExpr"))
                       [] la.Type = NewKeyword -> CallOut(f, 1, Frame("newExpr"))
                       [] OTHER -> CallOut(f, 1, Frame("leftHandSideExpr")))
         ELSE RetOut(r))

parensExpr ==
  /\ Running("parensExpr")
  /\ LET f == Top
         r == ret
     IN  Pure(
         CASE f.pc = 0 -> CallOut(f, 1, Consume(OpenParens))
           [] f.pc = 1 -> OrFail(r, CallOut(f, 2, Frame("seqExpr")))
           [] f.pc = 2 -> OrFail(r, CallOut([f EXCEPT !.n1 = r.node], 3, Consume(CloseParens)))
           [] f.pc = 3 -> OrFail(r, RetOut(RetNode(f.n1))))

literal ==
  /\ Running("literal")
  /\ LET f == Top
         la == lookahead
         r == ret
     IN  Pure(
         IF f.pc = 0
         THEN ReadLookahead(la,
                CASE la.Type = Number -> CallOut(f, 1, Frame("numericLit"))
                  [] la.Type = String -> CallOut(f, 1, Frame("stringLit"))
                  [] la.Type = TrueKeyword -> CallOut(f, 1, FrameArg("boolLit", TRUE))
                  [] la.Type = FalseKeyword -> CallOut(f, 1, FrameArg("boolLit", FALSE))
                  [] la.Type = NullKeyword -> CallOut(f, 1, Frame("nullLit"))
                  [] OTHER -> FailOut(ErrUnknownLiteral(la.Type, la.Value)))
         ELSE RetOut(r))

numericLit ==
  /\ Running("numericLit")
  /\ LET f == Top
         r == ret
     IN  Pure(
         IF f.pc = 0 THEN CallOut(f, 1, Consume(Number))
         ELSE OrFail(r,
                LET n == ParseInt(r.tok.Value)
                IN  IF n.err # NoErr THEN FailOut(n.err)
                    ELSE RetOut(RetNode(b_NumericLit(n.n)))))

stringLit ==
  /\ Running("stringLit")
  /\ LET f == Top
         r == ret
     IN  Pure(
         IF f.pc = 0 THEN CallOut(f, 1, Consume(String))
         ELSE OrFail(r, RetOut(RetNode(b_StringLit(
                SubSeq(r.tok.Value, 2, Len(r.tok.Value) - 1))))))

boolLit ==
  /\ Running("boolLit")
  /\ LET f == Top
         r == ret
     IN  Pure(
         IF f.pc = 0
         THEN CallOut(f, 1, Consume(IF f.arg THEN TrueKeyword ELSE FalseKeyword))
         ELSE OrFail(r, RetOut(RetNode(b_BoolLit(f.arg)))))

nullLit ==
  /\ Running("nullLit")
  /\ LET f == Top
         r == ret
     IN  Pure(
         IF f.pc = 0 THEN CallOut(f, 1, Consume(NullKeyword))
         ELSE OrFail(r, RetOut(RetNode(b_NullLit))))

(***************************************************************************)
(* The inputs.  Generated inputs are all strings of at most MaxToks        *)
(* lexemes of Vocab, joined by single spaces; to these are added the       *)
(* operator pairs a op1 b op2 c; and a few whole programs.                 *)
(***************************************************************************)
Vocab ==
  {<<"x">>, <<"1">>, <<"+">>, <<"=">>, <<";">>, <<",">>, <<"@">>}

RECURSIVE Join(_)
Join(lexemes) ==
  IF lexemes = <<>> THEN <<>>
  ELSE IF Len(lexemes) = 1 THEN lexemes[1]
  ELSE lexemes[1] \o <<" ">> \o Join(Tail(lexemes))

GeneratedInputs ==
  {Join(ls) : ls \in UNION {[1..n -> Vocab] : n \in 0..MaxToks}}

\* the operators of the six left-associative levels
InfixOps ==
  {binaryOpStrings[i] : i \in 2..Len(binaryOpStrings)}
    \cup {logicalOpStrings[i] : i \in 2..Len(logicalOpStrings)}

\* a op1 b op2 c;
OpPair(op1, op2) == Join(<<<<"a">>, op1, <<"b">>, op2, <<"c">>>>) \o <<";">>

\* (a op1 b) op2 c;
OpPairLeftParens(op1, op2) ==
  Join(<<<<"(">>, <<"a">>, op1, <<"b">>, <<")">>, op2, <<"c">>>>) \o <<";">>

\* a op1 (b op2 c);
OpPairRightParens(op1, op2) ==
  Join(<<<<"a">>, op1, <<"(">>, <<"b">>, op2, <<"c">>, <<")">>>>) \o <<";">>

\* the operators of the assignment level
AssignOps == {assignOpStrings[i] : i \in 2..Len(assignOpStrings)}

OperatorInputs ==
  {OpPair(op1, op2) : op1 \in InfixOps, op2 \in InfixOps}
    \cup {OpPair(op1, op2) : op1 \in AssignOps, op2 \in InfixOps}
    \cup {OpPair(op1, op2) : op1 \in InfixOps, op2 \in AssignOps}
    \cup {OpPair(op1, op2) : op1 \in AssignOps, op2 \in AssignOps}
    \cup {OpPairLeftParens(op1, <<"*">>) : op1 \in InfixOps \cup AssignOps}
    \cup {OpPairRightParens(<<"*">>, op2) : op2 \in InfixOps \cup AssignOps}

\* let x = 1, y; if (x) { y = "s"; } else y += 'a';
SrcVarIf ==
  <<"l", "e", "t", " ", "x", " ", "=", " ", "1", ",", " ", "y", ";", " ",
    "i", "f", " ", "(", "x", ")", " ", "{", " ", "y", " ", "=", " ", "\"",
    "s", "\"", ";", " ", "}", " ", "e", "l", "s", "e", " ", "y", " ", "+",
    "=", " ", "'", "a", "'", ";">>

\* while (x < 1) x = x - 1; do { ; } while (true);
SrcLoops ==
  <<"w", "h", "i", "l", "e", " ", "(", "x", " ", "<", " ", "1", ")", " ",
    "x", " ", "=", " ", "x", " ", "-", " ", "1", ";", " ", "d", "o", " ",
    "{", " ", ";", " ", "}", " ", "w", "h", "i", "l", "e", " ", "(", "t",
    "r", "u", "e", ")", ";">>

\* for (let i = 0; i < 3; i += 1) f(i, 2)(3); for (j, k;;) {}
SrcFor ==
  <<"f", "o", "r", " ", "(", "l", "e", "t", " ", "i", " ", "=", " ", "0",
    ";", " ", "i", " ", "<", " ", "3", ";", " ", "i", " ", "+", "=", " ",
    "1", ")", " ", "f", "(", "i", ",", " ", "2", ")", "(", "3", ")", ";",
    " ", "f", "o", "r", " ", "(", "j", ",", " ", "k", ";", ";", ")", " ",
    "{", "}">>

\* def f(a, b) { return a * b; } class A extends B { def g() { return; } }
SrcFuncClass ==
  <<"d", "e", "f", " ", "f", "(", "a", ",", " ", "b", ")", " ", "{", " ",
    "r", "e", "t", "u", "r", "n", " ", "a", " ", "*", " ", "b", ";", " ",
    "}", " ", "c", "l", "a", "s", "s", " ", "A", " ", "e", "x", "t", "e",
    "n", "d", "s", " ", "B", " ", "{", " ", "d", "e", "f", " ", "g", "(",
    ")", " ", "{", " ", "r", "e", "t", "u", "r", "n", ";", " ", "}", " ", "}">>

\* this.x[0] = new P(1); super(!a, -b && null || false == c);
SrcMembers ==
  <<"t", "h", "i", "s", ".", "x", "[", "0", "]", " ", "=", " ", "n", "e",
    "w", " ", "P", "(", "1", ")", ";", " ", "s", "u", "p", "e", "r", "(",
    "!", "a", ",", " ", "-", "b", " ", "&", "&", " ", "n", "u", "l", "l",
    " ", "|", "|", " ", "f", "a", "l", "s", "e", " ", "=", "=", " ", "c",
    ")", ";">>

\* a line comment, x, a block comment, then ;
SrcComments ==
  <<"/", "/", " ", "c", "\n", "x", " ", "/", "*", " ", "y", " ", "*", "/",
    " ", ";">>

\* 9223372036854775807;
SrcMaxInt ==
  <<"9", "2", "2", "3", "3", "7", "2", "0", "3", "6", "8", "5", "4", "7",
    "7", "5", "8", "0", "7", ";">>

\* 9223372036854775808;
SrcOverInt ==
  <<"9", "2", "2", "3", "3", "7", "2", "0", "3", "6", "8", "5", "4", "7",
    "7", "5", "8", "0", "8", ";">>

\* let x, @
SrcLetLexError == <<"l", "e", "t", " ", "x", ",", " ", "@">>

\* 1 = 2;
SrcAssignToNumber == <<"1", " ", "=", " ", "2", ";">>

\* x.y = 2;
SrcAssignToMember == <<"x", ".", "y", " ", "=", " ", "2", ";">>

\* { 1;
SrcUnclosedBlock == <<"{", " ", "1", ";">>

\* { x; } {}
SrcBlocks == <<"{", " ", "x", ";", " ", "}", " ", "{", "}">>

\* x = y;
SrcAssignToIdent == <<"x", " ", "=", " ", "y", ";">>

\* (
SrcOpenParen == <<"(">>

\* ( x
SrcUnclosedParen == <<"(", " ", "x">>

\* ( ;
SrcParenSemicolon == <<"(", " ", ";">>

\* ((x));
SrcNestedParens == <<"(", "(", "x", ")", ")", ";">>

\* let x = y = 42;
SrcLetChain ==
  <<"l", "e", "t", " ", "x", " ", "=", " ", "y", " ", "=", " ", "4", "2",
    ";">>

\* x.y = z[0] -= 1;
SrcMemberChain ==
  <<"x", ".", "y", " ", "=", " ", "z", "[", "0", "]", " ", "-", "=", " ",
    "1", ";">>

\* the prefix operators the grammar reads
PrefixOps == {<<"+">>, <<"-">>, <<"!">>}

\* op x;
PrefixInput(op) == op \o <<"x", ";">>

\* !-x;
SrcNotNeg == <<"!", "-", "x", ";">>

\* -a * !b;
SrcNegTimesNot == <<"-", "a", " ", "*", " ", "!", "b", ";">>

\* x;
SrcOneExpr == <<"x", ";">>

\* x, 1;
SrcSeqTwo == <<"x", ",", " ", "1", ";">>

\* x, 1, y = 2;
SrcSeqThree ==
  <<"x", ",", " ", "1", ",", " ", "y", " ", "=", " ", "2", ";">>

\* f(x)(y);
SrcCallTwice == <<"f", "(", "x", ")", "(", "y", ")", ";">>

\* f(1)(x, y)(2, b, a);
SrcCallThrice ==
  <<"f", "(", "1", ")", "(", "x", ",", " ", "y", ")", "(", "2", ",", " ",
    "b", ",", " ", "a", ")", ";">>

\* a.b.c['d'];
SrcMemberChainOfThree ==
  <<"a", ".", "b", ".", "c", "[", "'", "d", "'", "]", ";">>

\* a[b.c][1, x].d;
SrcMemberComputedFirst ==
  <<"a", "[", "b", ".", "c", "]", "[", "1", ",", " ", "x", "]", ".", "d",
    ";">>

\* new X()(y);
SrcNewThenCall ==
  <<"n", "e", "w", " ", "X", "(", ")", "(", "y", ")", ";">>

\* super;
SrcSuperAlone == <<"s", "u", "p", "e", "r", ";">>

\* super.x;
SrcSuperMember == <<"s", "u", "p", "e", "r", ".", "x", ";">>

\* f(super);
SrcSuperArg == <<"f", "(", "s", "u", "p", "e", "r", ")", ";">>

\* super(1)(x);
SrcSuperCalledTwice ==
  <<"s", "u", "p", "e", "r", "(", "1", ")", "(", "x", ")", ";">>

\* the inputs whose super is not followed at once by (
SuperNotCalled == {SrcSuperAlone, SrcSuperMember, SrcSuperArg}

\* let x, y = 42;
SrcLetSecondInit ==
  <<"l", "e", "t", " ", "x", ",", " ", "y", " ", "=", " ", "4", "2", ";">>

\* let a = null, b;
SrcLetNullInit ==
  <<"l", "e", "t", " ", "a", " ", "=", " ", "n", "u", "l", "l", ",", " ",
    "b", ";">>

\* if (x) y;
SrcIfNoElse == <<"i", "f", " ", "(", "x", ")", " ", "y", ";">>

\* if (x) y; else z;
SrcIfElse ==
  <<"i", "f", " ", "(", "x", ")", " ", "y", ";", " ", "e", "l", "s", "e",
    " ", "z", ";">>

\* return;
SrcReturnBare == <<"r", "e", "t", "u", "r", "n", ";">>

\* return null;
SrcReturnNull ==
  <<"r", "e", "t", "u", "r", "n", " ", "n", "u", "l", "l", ";">>

\* class A {}
SrcClassPlain == <<"c", "l", "a", "s", "s", " ", "A", " ", "{", "}">>

\* class A extends B {}
SrcClassExtends ==
  <<"c", "l", "a", "s", "s", " ", "A", " ", "e", "x", "t", "e", "n", "d",
    "s", " ", "B", " ", "{", "}">>

\* the inputs that omit an optional child
OmitsChild ==
  {SrcLetSecondInit, SrcLetNullInit, SrcIfNoElse, SrcReturnBare,
   SrcClassPlain}

\* the inputs that have the optional child
HasChild == {SrcIfElse, SrcReturnNull, SrcClassExtends}

\* f();
SrcCallNoArgs == <<"f", "(", ")", ";">>

\* a clause of a for statement: omitted, or the expression x
Clauses == {<<>>, <<"x">>}

\* for (init; cond; step) {}
ForInput(init, cond, step) ==
  <<"f", "o", "r", " ", "(">> \o init \o <<";">> \o cond \o <<";">>
    \o step \o <<")", " ", "{", "}">>

\* for (init; cond) {} : a for statement with one semicolon only
ForOneSemicolon(init, cond) ==
  <<"f", "o", "r", " ", "(">> \o init \o <<";">> \o cond
    \o <<")", " ", "{", "}">>

\* for (init) {} : a for statement with no semicolon
ForNoSemicolon(init) ==
  <<"f", "o", "r", " ", "(">> \o init \o <<")", " ", "{", "}">>

\* the for statements that lack a semicolon
ForLacksSemicolon ==
  {ForOneSemicolon(i, c) : i \in Clauses, c \in Clauses}
    \cup {ForNoSemicolon(i) : i \in Clauses}

\* for (let i = 0, j;; ) {}
SrcForLet ==
  <<"f", "o", "r", " ", "(", "l", "e", "t", " ", "i", " ", "=", " ", "0",
    ",", " ", "j", ";", ";", " ", ")", " ", "{", "}">>

\* for (a = 1, b; c, d; e, f) ;
SrcForSeq ==
  <<"f", "o", "r", " ", "(", "a", " ", "=", " ", "1", ",", " ", "b", ";",
    " ", "c", ",", " ", "d", ";", " ", "e", ",", " ", "f", ")", " ", ";">>

ForInputs ==
  {ForInput(i, c, s) : i \in Clauses, c \in Clauses, s \in Clauses}
    \cup ForLacksSemicolon \cup {SrcForLet, SrcForSeq}

\* "a" + "b";
SrcTwoDoubleQuoted ==
  <<"\"", "a", "\"", " ", "+", " ", "\"", "b", "\"", ";">>

\* 'a' + 'b';
SrcTwoSingleQuoted == <<"'", "a", "'", " ", "+", " ", "'", "b", "'", ";">>

\* "it's";
SrcDoubleWithSingle == <<"\"", "i", "t", "'", "s", "\"", ";">>

\* 'a"b';
SrcSingleWithDouble == <<"'", "a", "\"", "b", "'", ";">>

\* the inputs of string literals
StringInputs ==
  {SrcTwoDoubleQuoted, SrcTwoSingleQuoted, SrcDoubleWithSingle,
   SrcSingleWithDouble}

\* what may be put between two tokens: blanks, a line comment with its
\* line break, a block comment; the last two hold a single quote
Gaps ==
  {<<" ">>, <<"\n", "\t", " ">>, <<"/", "/", " ", "c", "\n">>,
   <<"/", "*", " ", "c", "\n", "*", "/">>, <<"/", "/", "'", "\n">>,
   <<"/", "*", " ", "'", " ", "*", "/">>}

GapsWithQuote ==
  {<<"/", "/", "'", "\n">>, <<"/", "*", " ", "'", " ", "*", "/">>}

\* x = 1 ;
LexemesAssignNumber == <<<<"x">>, <<"=">>, <<"1">>, <<";">>>>

\* let x ;
LexemesLet == <<<<"l", "e", "t">>, <<"x">>, <<";">>>>

\* y = "a" ;
LexemesAssignDoubleQuoted ==
  <<<<"y">>, <<"=">>, <<"\"", "a", "\"">>, <<";">>>>

\* y = 'a' ;
LexemesAssignSingleQuoted == <<<<"y">>, <<"=">>, <<"'", "a", "'">>, <<";">>>>

GapBases ==
  {LexemesAssignNumber, LexemesLet, LexemesAssignDoubleQuoted,
   LexemesAssignSingleQuoted}

\* the lexemes ls with gap between the k-th and the one after it
WithGap(ls, k, gap) == Join(Take(ls, k)) \o gap \o Join(Drop(ls, k))

GapInputs ==
  {Join(ls) : ls \in GapBases}
    \cup {WithGap(ls, k, g) : ls \in GapBases, k \in 1..3, g \in Gaps}

\* the characters the operator rules are written with
OpChars == {"=", "!", "+", "-", "*", "/", "<", ">", "&", "|"}

\* the token types read by the binary, logical and assignment productions
InfixTypes ==
  {EqualityOp, RelationalOp, AdditiveOp, MultiplicativeOp, AndLogicalOp,
   OrLogicalOp, SimpleAssign, ComplexAssign}

\* the texts of one or two of OpChars that the rules return whole as a
\* token of one of InfixTypes
LexedInfixOps ==
  {s \in {<<c>> : c \in OpChars} \cup {<<c, d>> : c \in OpChars, d \in OpChars} :
     /\ NextToken(DefaultRules, s, 0).tok.Type \in InfixTypes
     /\ NextToken(DefaultRules, s, 0).tok.Value = s}

\* a op b;
OpOnce(op) == Join(<<<<"a">>, op, <<"b">>>>) \o <<";">>

LexedOpInputs == {OpOnce(op) : op \in LexedInfixOps}

\* if (x) if (y) a; else b;
SrcIfIfElse ==
  <<"i", "f", " ", "(", "x", ")", " ", "i", "f", " ", "(", "y", ")", " ",
    "a", ";", " ", "e", "l", "s", "e", " ", "b", ";">>

\* if (x) if (y) a; else if (z) b; else c;
SrcIfIfElseIfElse ==
  <<"i", "f", " ", "(", "x", ")", " ", "i", "f", " ", "(", "y", ")", " ",
    "a", ";", " ", "e", "l", "s", "e", " ", "i", "f", " ", "(", "z", ")",
    " ", "b", ";", " ", "e", "l", "s", "e", " ", "c", ";">>

\* if (x) { if (y) a; } else b;
SrcIfBlockElse ==
  <<"i", "f", " ", "(", "x", ")", " ", "{", " ", "i", "f", " ", "(", "y",
    ")", " ", "a", ";", " ", "}", " ", "e", "l", "s", "e", " ", "b", ";">>

NestedIfInputs == {SrcIfIfElse, SrcIfIfElseIfElse, SrcIfBlockElse}

\* f().x;
SrcCallThenDot == <<"f", "(", ")", ".", "x", ";">>

\* a.b()[0];
SrcCallThenIndex == <<"a", ".", "b", "(", ")", "[", "0", "]", ";">>

\* super().x;
SrcSuperCallThenDot == <<"s", "u", "p", "e", "r", "(", ")", ".", "x", ";">>

\* (f()).x;
SrcParenCallThenDot == <<"(", "f", "(", ")", ")", ".", "x", ";">>

\* (f(1))[0].y;
SrcParenCallThenIndex ==
  <<"(", "f", "(", "1", ")", ")", "[", "0", "]", ".", "y", ";">>

\* an accessor written right after the argument list of a call
AccessorAfterCall == {SrcCallThenDot, SrcCallThenIndex, SrcSuperCallThenDot}

\* an accessor written after a call in parentheses
AccessorAfterParens == {SrcParenCallThenDot, SrcParenCallThenIndex}

ProgramInputs ==
  {SrcVarIf, SrcLoops, SrcFor, SrcFuncClass, SrcMembers, SrcComments,
   SrcMaxInt, SrcOverInt, SrcLetLexError, SrcAssignToNumber,
   SrcAssignToMember, SrcAssignToIdent, SrcUnclosedBlock, SrcBlocks,
   SrcOpenParen, SrcUnclosedParen, SrcParenSemicolon, SrcNestedParens,
   SrcLetChain, SrcMemberChain, SrcNotNeg, SrcNegTimesNot, SrcOneExpr,
   SrcSeqTwo, SrcSeqThree, SrcCallTwice, SrcCallThrice,
   SrcMemberChainOfThree, SrcMemberComputedFirst, SrcNewThenCall,
   SrcSuperCalledTwice, SrcCallNoArgs}
    \cup SuperNotCalled \cup OmitsChild \cup HasChild \cup ForInputs
    \cup StringInputs \cup GapInputs \cup LexedOpInputs
    \cup NestedIfInputs \cup AccessorAfterCall \cup AccessorAfterParens
    \cup {PrefixInput(op) : op \in PrefixOps}

Inputs == GeneratedInputs \cup OperatorInputs \cup ProgramInputs


Next ==
  \/ Parse \/ consume
  \/ program \/ stmtList \/ stmt \/ exprStmt \/ blockStmt \/ emptyStmt
  \/ varStmt \/ varStmtInit \/ ifStmt \/ iterStmt \/ funcDecl
  \/ formalParamList \/ returnStmt \/ classDecl \/ classExtends
  \/ whileStmt \/ doWhileStmt \/ forStmt \/ forStmtInit
  \/ varDeclList \/ varDecl \/ varInit
  \/ seqExpr \/ expr_a \/ assignExpr \/ assignOp \/ identifier \/ thisExpr
  \/ superCall \/ logicalOrExpr \/ logicalAndExpr \/ equalExpr \/ relExpr
  \/ addExpr \/ multExpr \/ binaryExpr \/ logicalExpr \/ unaryExpr
  \/ leftHandSideExpr \/ callMemberExpr \/ callExpr \/ newExpr \/ callArgs
  \/ argList \/ memberExpr \/ primaryExpr \/ parensExpr \/ literal
  \/ numericLit \/ stringLit \/ boolLit \/ nullLit

(***************************************************************************)
(* The state NewParser and NewTokenizer leave, and the call of Parse.      *)
(***************************************************************************)
Init ==
  /\ expr \in Inputs
  /\ cursor = 0
  /\ lookahead = NilTok
  /\ stack = <<Frame("Parse")>>
  /\ ret = RetNode(NilNode)
  /\ status = "run"
  /\ nextCalls = 0
  /\ consumed = 0

Spec == Init /\ [][Next]_vars

(***************************************************************************)
(* The tokenizer by itself: NextToken called again and again on one input. *)
(* lookahead holds the token of the last call, ret its token or its error. *)
(***************************************************************************)
\* the operators of two characters, each with the type of its rule
TwoCharOps ==
  {<<<<"=", "=">>, EqualityOp>>, <<<<"!", "=">>, EqualityOp>>,
   <<<<"+", "=">>, ComplexAssign>>, <<<<"-", "=">>, ComplexAssign>>,
   <<<<"*", "=">>, ComplexAssign>>, <<<<"/", "=">>, ComplexAssign>>,
   <<<<"<", "=">>, RelationalOp>>, <<<<">", "=">>, RelationalOp>>,
   <<<<"&", "&">>, AndLogicalOp>>, <<<<"|", "|">>, OrLogicalOp>>}

\* a op b, written without blanks
OpBetweenWords(op) == <<"a">> \o op \o <<"b">>

\* the keywords, each with the type of its rule
Keywords ==
  {<<<<"l", "e", "t">>, LetKeyword>>, <<<<"d", "e", "f">>, DefKeyword>>,
   <<<<"r", "e", "t", "u", "r", "n">>, ReturnKeyword>>,
   <<<<"i", "f">>, IfKeyword>>,
   <<<<"w", "h", "i", "l", "e">>, WhileKeyword>>,
   <<<<"d", "o">>, DoKeyword>>,
   <<<<"c", "l", "a", "s", "s">>, ClassKeyword>>,
   <<<<"t", "h", "i", "s">>, ThisKeyword>>,
   <<<<"e", "x", "t", "e", "n", "d", "s">>, ExtendsKeyword>>,
   <<<<"s", "u", "p", "e", "r">>, SuperKeyword>>,
   <<<<"n", "e", "w">>, NewKeyword>>, <<<<"f", "o", "r">>, ForKeyword>>,
   <<<<"e", "l", "s", "e">>, ElseKeyword>>,
   <<<<"t", "r", "u", "e">>, TrueKeyword>>,
   <<<<"f", "a", "l", "s", "e">>, FalseKeyword>>,
   <<<<"n", "u", "l", "l">>, NullKeyword>>}

\* what is appended to a keyword to make a longer word
WordTails == {<<"x">>, <<"1">>, <<"_">>, <<"t", "e", "r">>, <<"f", "y">>}

\* the keyword followed by a token that is not part of a word
KeywordThen == {<<";">>, <<" ", "x">>, <<"(">>, <<".">>}

OperatorAndWordInputs ==
  {OpBetweenWords(o[1]) : o \in TwoCharOps}
    \cup {k[1] : k \in Keywords}
    \cup {k[1] \o t : k \in Keywords, t \in WordTails \cup KeywordThen}

\* what the Skip rules take: blanks, a line comment, a block comment
Trails ==
  {<<" ">>, <<" ", "\n", "\t">>, <<" ", "/", "/", " ", "c">>,
   <<"/", "/", "c", "\n">>, <<" ", "/", "*", " ", "c", " ", "*", "/">>,
   <<"/", "*", "\n", "*", "/", " ", "/", "/", " ", "b", "\n", " ">>}

\* nothing, or nothing but what is skipped, after at most one token
EndInputs == {<<>>} \cup Trails \cup {<<"x">> \o t : t \in Trails}

\* the skipped texts that end by themselves: a line comment with no line
\* break runs to the end of the input
ClosedTrails == Trails \ {<<" ", "/", "/", " ", "c">>}

\* what no rule matches, and what follows it
Unmatched ==
  {<<"@">>, <<"@", "@">>, <<"#", " ", "x">>, <<"&", "x">>, <<"|">>,
   <<"'", "a">>, <<"\"", "a", "'">>}

\* an unmatched character at the start, after skipped text, after a token
ErrorInputs ==
  Unmatched \cup {t \o u : t \in ClosedTrails, u \in Unmatched}
    \cup {<<"x">> \o t \o u : t \in ClosedTrails, u \in Unmatched}

LexInputs ==
  OperatorAndWordInputs \cup EndInputs \cup ErrorInputs \cup ProgramInputs

LexInit ==
  /\ expr \in LexInputs
  /\ cursor = 0
  /\ lookahead = NilTok
  /\ stack = <<>>
  /\ ret = RetNode(NilNode)
  /\ status = "run"
  /\ nextCalls = 0
  /\ consumed = 0

\* one call of t.NextToken()
NextTokenCall ==
  /\ nextCalls < MaxCalls
  /\ LET t == NextToken(DefaultRules, expr, cursor)
     IN  /\ cursor' = t.cursor
         /\ lookahead' = t.tok
         /\ ret' = IF t.err # NoErr THEN RetErr(t.err) ELSE RetTok(t.tok)
         /\ nextCalls' = nextCalls + 1
  /\ UNCHANGED <<expr, stack, status, consumed>>

LexSpec == LexInit /\ [][NextTokenCall]_vars

(***************************************************************************)
(* Properties of Parse.                                                    *)
(***************************************************************************)
\* Parse is over: it returned, or the goroutine died
Done == status # "run"

\* the frames i..i+4 are primaryExpr calling back into primaryExpr through
\* leftHandSideExpr, callMemberExpr and memberExpr, each at its first call:
\* nothing was consumed between the two primaryExpr frames, so the second
\* primaryExpr starts in the state the first one started in
RecursionCycleAt(i) ==
  /\ i + 4 <= Len(stack)
  /\ stack[i].fn = "primaryExpr" /\ stack[i].pc = 1
  /\ stack[i + 1].fn = "leftHandSideExpr" /\ stack[i + 1].pc = 1
  /\ stack[i + 2].fn = "callMemberExpr" /\ stack[i + 2].pc = 3
  /\ stack[i + 3].fn = "memberExpr" /\ stack[i + 3].pc = 1
  /\ stack[i + 4].fn = "primaryExpr"

\* MaxStack is reached only by a recursion that repeats a state, that is, by
\* a run of the code that never ends
OverflowIsUnboundedRecursion ==
  status = "overflow" => \E i \in 1..Len(stack) : RecursionCycleAt(i)

\* C1: Parse terminates on every finite input, returning a tree or an error:
\* no run of Parse recurses without bound (the stack never reaches MaxStack,
\* which by OverflowIsUnboundedRecursion only a state-repeating recursion
\* does).
C1_ParseTerminates == status # "overflow"

\* the empty input drives primaryExpr into the recursion
C1_EmptyInputRecurses ==
  /\ expr = <<>>
  /\ status = "overflow"
  /\ \E i \in 1..Len(stack) : RecursionCycleAt(i)

\* C2: whenever Parse returns successfully the result is a Program node
\* with at least one statement, the lookahead is the EOF token and the
\* tokenizer's cursor is at the end of the input.
C2_SuccessShape ==
  status = "ok" =>
    /\ ret.node.type = "ProgramType"
    /\ ~ret.node.Body.isNil
    /\ Len(ret.node.Body.elems) >= 1
    /\ lookahead # NilTok
    /\ lookahead.Type = EOF
    /\ cursor = Len(expr)

\* a successful parse of two statements
C2_TwoStatementsParsed ==
  /\ status = "ok"
  /\ Len(expr) > 0
  /\ Len(ret.node.Body.elems) = 2
  /\ lookahead.Type = EOF
  /\ cursor = Len(expr)

\* the token a lexeme is read as
TokenOf(lexeme) == NextToken(DefaultRules, lexeme, 0).tok

\* lexemes of tokens that start no expression
NonOperands == {<<";">>, <<",">>, <<"=">>}

\* C3: with a token that cannot start an expression where an operand is
\* required (x + ; and the like), Parse fails with UnexpectedToken carrying
\* the kind and the text of that token.
C3_UnexpectedOperandToken ==
  Done =>
    \A l \in {<<"x">>, <<"1">>}, t \in NonOperands :
      expr = Join(<<l, <<"+">>, t>>) =>
        /\ status = "err"
        /\ ret.err.kind = "UnexpectedToken"
        /\ ret.err.Type = TokenOf(t).Type
        /\ ret.err.Value = TokenOf(t).Value

\* x + ; ends in the recursion, the ; still the lookahead
C3_SemicolonOperandRecurses ==
  /\ expr = Join(<<<<"x">>, <<"+">>, <<";">>>>)
  /\ status = "overflow"
  /\ lookahead = Token(Semicolon, <<";">>)

\* inputs that end where a production requires a token: the empty input,
\* after a binary operator, after an open parenthesis, in an open block
EndsEarly ==
  {<<>>, Join(<<<<"x">>, <<"+">>>>), Join(<<<<"1">>, <<"+">>>>), SrcOpenParen,
   SrcUnclosedBlock}

\* C4: when the input ends where a production requires a token, Parse fails
\* with UnexpectedEndOfInput.
C4_UnexpectedEndOfInput ==
  (Done /\ expr \in EndsEarly) =>
    status = "err" /\ ret.err.kind = "UnexpectedEndOfInput"

\* the unclosed block ends in the recursion, at the end of the input
C4_UnclosedBlockRecurses ==
  /\ expr = SrcUnclosedBlock
  /\ status = "overflow"
  /\ lookahead.Type = EOF

\* the tokenizer found no rule: NextToken returned a nil token, which Parse
\* and consume store in the lookahead
LexerFailed == nextCalls > 0 /\ lookahead = NilTok

\* C5: when the tokenizer matches no rule during any fetch of a token, Parse
\* returns exactly the tokenizer's error, its Position the offset of the
\* character that matched nothing.
C5_LexerErrorPropagates ==
  (Done /\ LexerFailed) =>
    /\ status = "err"
    /\ FirstMatch(DefaultRules, Drop(expr, cursor), 1) = 0
    /\ ret.err = LexError(cursor, Drop(expr, cursor))

\* in let x, @ the tokenizer's error is dropped by varDeclList and Parse
\* returns the UnexpectedEndOfInput of the next consume
C5_LetListErrorReplaced ==
  /\ expr = SrcLetLexError
  /\ LexerFailed
  /\ status = "err"
  /\ ret.err = ErrUnexpectedEndOfInput(Identifier)

\* C6: Parse never aborts abnormally: whenever a production reads the kind
\* of the lookahead the lookahead is not nil (status "panic" is the read of
\* p.lookahead.Type with p.lookahead nil).
C6_LookaheadPresent == status # "panic"

\* in x , @ the tokenizer's error is dropped by seqExpr and unaryExpr reads
\* the kind of the nil lookahead
C6_NilLookaheadRead ==
  /\ expr = Join(<<<<"x">>, <<",">>, <<"@">>>>)
  /\ status = "panic"
  /\ lookahead = NilTok
  /\ Top.fn = "unaryExpr"

\* the error kinds Parse is specified to return
ErrorKinds ==
  {"LexError", "UnexpectedToken", "UnexpectedEndOfInput", "UnknownLiteral",
   "UnknownBinaryOp", "UnknownLogicalOp", "UnknownUnaryOp", "UnknownAssignOp",
   "InvalidLvalue"}

\* C7: every error Parse returns is of one of the kinds of ErrorKinds, for
\* Number tokens of every length.
C7_ClosedErrorSet == status = "err" => ret.err.kind \in ErrorKinds

\* 9223372036854775808; ends with the error of strconv.ParseInt
C7_RangeErrorReturned ==
  /\ expr = SrcOverInt
  /\ status = "err"
  /\ ret.err.kind = "strconv.NumError"

\* the node types an assignment may target
TargetTypes == {"IdentifierType", "MemberExprType"}

\* assignExpr resumes after its call of assignOp, the left operand in n1
AfterAssignOp == Running("assignExpr") /\ Top.pc = 2

\* the running function returns the error e to its caller
ReturnsError(e) ==
  /\ stack' = Take(stack, Len(stack) - 1)
  /\ ret'.err = e
  /\ status' \in {"run", "err"}

\* C8 (as the code has it): once the assignment operator is consumed and
\* the token after it fetched, a left operand that is neither an Identifier
\* nor a MemberExpr makes assignExpr return InvalidLvalue carrying that
\* node, without calling a production for the right-hand side, and every
\* caller up to Parse returns that error; with an Identifier or a
\* MemberExpr assignExpr goes on to parse the right-hand side.
C8_InvalidLvalueFirst ==
  [][/\ (AfterAssignOp /\ ret.err = NoErr) =>
          IF Top.n1.type \in TargetTypes
          THEN /\ status' = "run"
               /\ Len(stack') = Len(stack) + 1
               /\ stack'[Len(stack')] = Frame("assignExpr")
          ELSE ReturnsError(ErrInvalidLvalue(Top.n1))
     /\ (status = "run" /\ ret.err.kind = "InvalidLvalue") =>
          ReturnsError(ret.err)]_vars

\* 1 = ; ends with InvalidLvalue carrying the literal 1, the ; still the
\* lookahead
C8_InvalidTargetReported ==
  /\ status = "err"
  /\ expr = Join(<<<<"1">>, <<"=">>, <<";">>>>)
  /\ ret.err = ErrInvalidLvalue(b_NumericLit(<<"1">>))
  /\ lookahead = Token(Semicolon, <<";">>)

\* C8 as stated: whenever the left operand of an assignment operator is
\* neither an Identifier nor a MemberExpr, InvalidLvalue carrying that node
\* is what comes back.
C8_InvalidLvalueAlways ==
  [][(AfterAssignOp /\ Top.n1.type \notin TargetTypes) =>
       ReturnsError(ErrInvalidLvalue(Top.n1))]_vars

\* the binding level of an operator, the tighter the higher
Level(op) ==
  CASE op \in {<<"*">>, <<"/">>} -> 7
    [] op \in {<<"+">>, <<"-">>} -> 6
    [] op \in {<<"<">>, <<">">>, <<"<", "=">>, <<">", "=">>} -> 5
    [] op \in {<<"=", "=">>, <<"!", "=">>} -> 4
    [] op = <<"&", "&">> -> 3
    [] op = <<"|", "|">> -> 2
    [] op \in AssignOps -> 1

\* the node of left op right
OpNode(op, left, right) ==
  IF op \in AssignOps
  THEN b_AssignExpr(AssignOpFromString(op), left, right)
  ELSE IF op \in {<<"&", "&">>, <<"|", "|">>}
  THEN b_LogicalExpr(LogicalOpFromString(op), left, right)
  ELSE b_BinaryExpr(BinaryOpFromString(op), left, right)

Ident(name) == b_Identifier(<<name>>)

\* the tree of a program of the one expression statement e;
ProgramOf(e) == b_Program(SliceOf(<<b_ExprStmt(e)>>))

\* Parse returned the tree of e;
Parsed(e) == status = "ok" /\ ret.node = ProgramOf(e)

\* (a op1 b) op2 c
FoldLeft(op1, op2) ==
  OpNode(op2, OpNode(op1, Ident("a"), Ident("b")), Ident("c"))

\* a op1 (b op2 c)
FoldRight(op1, op2) ==
  OpNode(op1, Ident("a"), OpNode(op2, Ident("b"), Ident("c")))

ParensGroup ==
  \A op \in InfixOps \cup AssignOps :
    /\ expr = OpPairLeftParens(op, <<"*">>) => Parsed(FoldLeft(op, <<"*">>))
    /\ expr = OpPairRightParens(<<"*">>, op) => Parsed(FoldRight(<<"*">>, op))

\* C10 (as the code has it): in a op1 b op2 c; the operator of the tighter
\* level takes b, so the tree is op1(a, op2(b, c)) when op2 is tighter and
\* op2(op1(a, b), c) when op1 is tighter, except that with op2 an assignment
\* operator no tree comes back: op1(a, b) is the assignment's target and
\* Parse fails with InvalidLvalue carrying it; a parenthesised expression
\* is one operand and leaves no node.
C10_Precedence ==
  Done =>
    /\ \A op1 \in InfixOps \cup AssignOps, op2 \in InfixOps \cup AssignOps :
         (Level(op1) # Level(op2) /\ expr = OpPair(op1, op2)) =>
           IF Level(op2) > Level(op1) THEN Parsed(FoldRight(op1, op2))
           ELSE IF op2 \in AssignOps
           THEN /\ status = "err"
                /\ ret.err =
                     ErrInvalidLvalue(OpNode(op1, Ident("a"), Ident("b")))
           ELSE Parsed(FoldLeft(op1, op2))
    /\ ParensGroup

\* a + b * c; has parsed to a + (b * c)
C10_MulBindsTighter ==
  /\ expr = OpPair(<<"+">>, <<"*">>)
  /\ Parsed(FoldRight(<<"+">>, <<"*">>))

\* C10 as stated: the tree is op1(a, op2(b, c)) when op2 is tighter and
\* op2(op1(a, b), c) when op1 is tighter, on every level, assignment
\* included.
C10_PrecedenceAllLevels ==
  Done =>
    /\ \A op1 \in InfixOps \cup AssignOps, op2 \in InfixOps \cup AssignOps :
         (Level(op1) # Level(op2) /\ expr = OpPair(op1, op2)) =>
           IF Level(op2) > Level(op1) THEN Parsed(FoldRight(op1, op2))
           ELSE Parsed(FoldLeft(op1, op2))
    /\ ParensGroup

\* the tree of a program of the one statement s
ProgramOfStmt(s) == b_Program(SliceOf(<<s>>))

\* the tree of the number written with the digits ds
Num(ds) == b_NumericLit(ds)

\* C11: assignment folds to the right: a op1 b op2 c; parses to
\* op1(a, op2(b, c)) for = and every compound assignment operator, with
\* member targets as with identifiers, and so does the initializer of a
\* let declaration.
C11_AssignRightFold ==
  Done =>
    /\ \A op1 \in AssignOps, op2 \in AssignOps :
         expr = OpPair(op1, op2) => Parsed(FoldRight(op1, op2))
    /\ expr = SrcLetChain =>
         /\ status = "ok"
         /\ ret.node =
              ProgramOfStmt(b_VarStmt(SliceOf(<<
                b_VarDecl(Ident("x"),
                          OpNode(<<"=">>, Ident("y"), Num(<<"4", "2">>)))>>)))
    /\ expr = SrcMemberChain =>
         Parsed(OpNode(<<"=">>,
                       b_MemberExpr(FALSE, Ident("x"), Ident("y")),
                       OpNode(<<"-", "=">>,
                              b_MemberExpr(TRUE, Ident("z"), Num(<<"0">>)),
                              Num(<<"1">>))))

\* a += b = c; has parsed to a += (b = c)
C11_AddAssignThenAssignParsed ==
  /\ expr = OpPair(<<"+", "=">>, <<"=">>)
  /\ Parsed(FoldRight(<<"+", "=">>, <<"=">>))

\* the node of op arg
PrefixNode(op, arg) == b_UnaryExpr(UnaryOpFromString(op), arg)

\* C12 as stated: each of the prefixes +, - and ! is accepted and gives a
\* UnaryExpr holding that operator; prefixes nest, !-x; being !(-(x)); and
\* a prefix binds tighter than a binary operator, -a * !b; being
\* (-a) * (!b).
C12_PrefixOperators ==
  Done =>
    /\ \A op \in PrefixOps :
         expr = PrefixInput(op) =>
           /\ Parsed(PrefixNode(op, Ident("x")))
           /\ UnaryOpFromString(op) # InvalidUnaryOp
    /\ expr = SrcNotNeg =>
         Parsed(PrefixNode(<<"!">>, PrefixNode(<<"-">>, Ident("x"))))
    /\ expr = SrcNegTimesNot =>
         Parsed(OpNode(<<"*">>, PrefixNode(<<"-">>, Ident("a")),
                       PrefixNode(<<"!">>, Ident("b"))))

\* +x; has failed with UnknownUnaryOp for the operator +
C12_PlusPrefixUnknown ==
  /\ expr = PrefixInput(<<"+">>)
  /\ status = "err"
  /\ ret.err = ErrUnknownUnaryOp(<<"+">>)

\* the prefixes - and ! do what C12 says: each gives its UnaryExpr, they
\* nest, and they bind tighter than a binary operator
PrefixMinusNot ==
  Done =>
    /\ \A op \in {<<"-">>, <<"!">>} :
         expr = PrefixInput(op) => Parsed(PrefixNode(op, Ident("x")))
    /\ expr = SrcNotNeg =>
         Parsed(PrefixNode(<<"!">>, PrefixNode(<<"-">>, Ident("x"))))
    /\ expr = SrcNegTimesNot =>
         Parsed(OpNode(<<"*">>, PrefixNode(<<"-">>, Ident("a")),
                       PrefixNode(<<"!">>, Ident("b"))))

\* the children of a node, in the order of its fields
Children(n) ==
  CASE n.type \in {"ProgramType", "BlockStmtType", "SeqExprType"} ->
         n.Body.elems
    [] n.type = "ExprStmtType" -> <<n.Expr>>
    [] n.type \in {"BinaryExprType", "LogicalExprType", "AssignExprType"} ->
         <<n.Left, n.Right>>
    [] n.type \in {"UnaryExprType", "ReturnStmtType"} -> <<n.Arg>>
    [] n.type = "VarStmtType" -> n.Decls.elems
    [] n.type = "VarDeclType" -> <<n.ID, n.Init>>
    [] n.type = "IfStmtType" -> <<n.Cond, n.Cons, n.Alt>>
    [] n.type \in {"WhileStmtType", "DoWhileStmtType"} -> <<n.Cond, n.Body>>
    [] n.type = "ForStmtType" -> <<n.Init, n.Cond, n.Step, n.Body>>
    [] n.type = "FuncDeclType" -> <<n.Name>> \o n.Params.elems \o <<n.Body>>
    [] n.type = "MemberExprType" -> <<n.Obj, n.Prop>>
    [] n.type \in {"CallExprType", "NewExprType"} ->
         <<n.Callee>> \o n.Args.elems
    [] n.type = "ClassDeclType" -> <<n.ID, n.Super, n.Body>>
    [] OTHER -> <<>>

RECURSIVE Nodes(_)
\* the nodes of the tree under n, n included
Nodes(n) ==
  {n} \cup UNION {Nodes(Children(n)[i]) : i \in DOMAIN Children(n)}

\* C13: a sequence of one expression is that expression itself, and one of
\* two or more is a SeqExpr holding them in source order; no SeqExpr of a
\* returned tree has fewer than two children.
C13_SeqExprShape ==
  status = "ok" =>
    /\ \A n \in Nodes(ret.node) :
         n.type = "SeqExprType" => Len(n.Body.elems) >= 2
    /\ expr = SrcOneExpr => Parsed(Ident("x"))
    /\ expr = SrcSeqTwo =>
         Parsed(b_SeqExpr(SliceOf(<<Ident("x"), Num(<<"1">>)>>)))
    /\ expr = SrcSeqThree =>
         Parsed(b_SeqExpr(SliceOf(<<Ident("x"), Num(<<"1">>),
                                    OpNode(<<"=">>, Ident("y"),
                                           Num(<<"2">>))>>)))

\* x, 1, y = 2; has parsed to the SeqExpr of its three expressions
C13_ThreeInSequence ==
  /\ expr = SrcSeqThree
  /\ status = "ok"
  /\ \E n \in Nodes(ret.node) :
       n.type = "SeqExprType" /\ Len(n.Body.elems) = 3

\* the node of callee(args)
Call(callee, args) == b_CallExpr(callee, SliceOf(args))

\* C14: a callee followed by k argument lists parses to k nested
\* CallExpr, the innermost holding the first list, each with its arguments
\* in source order: f(x)(y); is (f(x))(y).
C14_CallChain ==
  Done =>
    /\ expr = SrcCallTwice =>
         Parsed(Call(Call(Ident("f"), <<Ident("x")>>), <<Ident("y")>>))
    /\ expr = SrcCallThrice =>
         Parsed(Call(Call(Call(Ident("f"), <<Num(<<"1">>)>>),
                          <<Ident("x"), Ident("y")>>),
                     <<Num(<<"2">>), Ident("b"), Ident("a")>>))

\* f(1)(x, y)(2, b, a); has parsed to three nested calls
C14_ThreeCallsParsed ==
  /\ expr = SrcCallThrice
  /\ status = "ok"
  /\ ret.node.Body.elems[1].Expr.Callee.Callee.Callee = Ident("f")

\* obj.name
DotMember(obj, name) == b_MemberExpr(FALSE, obj, Ident(name))

\* obj[prop]
IndexMember(obj, prop) == b_MemberExpr(TRUE, obj, prop)

\* C15: member accesses nest to the left, .name giving a MemberExpr that
\* is not computed and has the Identifier as property, [expr] one that is
\* computed and has the parsed expression as property: a.b.c['d']; is
\* ((a.b).c)['d'].
C15_MemberChain ==
  Done =>
    /\ expr = SrcMemberChainOfThree =>
         Parsed(IndexMember(DotMember(DotMember(Ident("a"), "b"), "c"),
                            b_StringLit(<<"d">>)))
    /\ expr = SrcMemberComputedFirst =>
         Parsed(DotMember(
                  IndexMember(
                    IndexMember(Ident("a"), DotMember(Ident("b"), "c")),
                    b_SeqExpr(SliceOf(<<Num(<<"1">>), Ident("x")>>))),
                  "d"))

\* a.b.c['d']; has parsed to a computed access on (a.b).c
C15_ThreeAccessesParsed ==
  /\ expr = SrcMemberChainOfThree
  /\ status = "ok"
  /\ ret.node.Body.elems[1].Expr.Computed
  /\ ret.node.Body.elems[1].Expr.Obj.Obj = DotMember(Ident("a"), "b")

\* C16 as stated: the result of new is not chained into a call: in no
\* returned tree is a NewExpr the callee of a CallExpr, and new X()(y); is
\* not parsed as a call on the result of new X().
C16_NewNotCallee ==
  status = "ok" =>
    \A n \in Nodes(ret.node) :
      n.type = "CallExprType" => n.Callee.type # "NewExprType"

\* new X()(y); has parsed to the call of new X() with the argument y
C16_NewResultCalled ==
  /\ expr = SrcNewThenCall
  /\ Parsed(Call(b_NewExpr(Ident("X"), NilSlice), <<Ident("y")>>))

\* C17: in a returned tree a SuperCall is the callee of a CallExpr and
\* nothing else, and an input whose super is not followed at once by (,
\* as super; or super.x;, makes Parse fail.
C17_SuperOnlyCallee ==
  /\ status = "ok" =>
       /\ ret.node.type # "SuperCallType"
       /\ \A n \in Nodes(ret.node) :
            \A i \in DOMAIN Children(n) :
              Children(n)[i].type = "SuperCallType" =>
                n.type = "CallExprType" /\ i = 1
  /\ (Done /\ expr \in SuperNotCalled) => status = "err"

\* super(1)(x); has parsed to a call whose innermost callee is the
\* SuperCall
C17_SuperCalled ==
  /\ expr = SrcSuperCalledTwice
  /\ Parsed(Call(Call(b_SuperCall, <<Num(<<"1">>)>>), <<Ident("x")>>))

\* the first statement of the returned program
FirstStmt == ret.node.Body.elems[1]

\* C18: an optional child is absent exactly when the source omits it: the
\* init of each declaration of a let list by itself, the alt of an if, the
\* arg of a return and the super of a class; a child written as null is
\* present, as the NullLit.
C18_OptionalChildren ==
  Done =>
    /\ expr \in OmitsChild \cup HasChild => status = "ok"
    /\ expr = SrcLetSecondInit =>
         FirstStmt =
           b_VarStmt(SliceOf(<<b_VarDecl(Ident("x"), NilNode),
                               b_VarDecl(Ident("y"), Num(<<"4", "2">>))>>))
    /\ expr = SrcLetNullInit =>
         FirstStmt =
           b_VarStmt(SliceOf(<<b_VarDecl(Ident("a"), b_NullLit),
                               b_VarDecl(Ident("b"), NilNode)>>))
    /\ expr = SrcIfNoElse =>
         FirstStmt = b_IfStmt(Ident("x"), b_ExprStmt(Ident("y")), NilNode)
    /\ expr = SrcIfElse =>
         FirstStmt = b_IfStmt(Ident("x"), b_ExprStmt(Ident("y")),
                              b_ExprStmt(Ident("z")))
    /\ expr = SrcReturnBare => FirstStmt = b_ReturnStmt(NilNode)
    /\ expr = SrcReturnNull => FirstStmt = b_ReturnStmt(b_NullLit)
    /\ expr = SrcClassPlain =>
         /\ FirstStmt.type = "ClassDeclType"
         /\ FirstStmt.ID = Ident("A")
         /\ FirstStmt.Super = NilNode
    /\ expr = SrcClassExtends =>
         /\ FirstStmt.type = "ClassDeclType"
         /\ FirstStmt.ID = Ident("A")
         /\ FirstStmt.Super = Ident("B")

\* let x, y = 42; has parsed to a declaration without init and one with
C18_SecondDeclInitialized ==
  /\ expr = SrcLetSecondInit
  /\ status = "ok"
  /\ FirstStmt.Decls.elems[1].Init = NilNode
  /\ FirstStmt.Decls.elems[2].Init = Num(<<"4", "2">>)

\* C19 (as the code has it): f(); gives a CallExpr whose args is absent,
\* the nil sequence, which is not the present sequence of no elements.
C19_NoArgsAbsent ==
  (Done /\ expr = SrcCallNoArgs) =>
    /\ Parsed(b_CallExpr(Ident("f"), NilSlice))
    /\ NilSlice # SliceOf(<<>>)

\* f(); has parsed to a call whose args is the nil sequence
C19_CallWithNilArgs ==
  /\ expr = SrcCallNoArgs
  /\ status = "ok"
  /\ FirstStmt.Expr.type = "CallExprType"
  /\ FirstStmt.Expr.Args.isNil

\* C19 as stated: f(); gives a CallExpr whose args is a present sequence of
\* no elements, not an absent one.
C19_NoArgsEmptySequence ==
  (Done /\ expr = SrcCallNoArgs) =>
    /\ status = "ok"
    /\ FirstStmt.Expr.type = "CallExprType"
    /\ ~FirstStmt.Expr.Args.isNil
    /\ FirstStmt.Expr.Args.elems = <<>>

\* the node of a clause: absent when omitted
ClauseNode(c) == IF c = <<>> THEN NilNode ELSE Ident(c[1])

\* C20: each clause of for (init; cond; step) body may be left out by
\* itself: the eight combinations parse, for (;;) {} among them, and an
\* omitted clause is absent in the ForStmt; both semicolons are needed, an
\* input lacking one returning no tree; init is a let declaration list,
\* with no semicolon of its own, or a sequence expression.
C20_ForClauses ==
  Done =>
    /\ \A i \in Clauses, c \in Clauses, s \in Clauses :
         expr = ForInput(i, c, s) =>
           /\ status = "ok"
           /\ Len(ret.node.Body.elems) = 1
           /\ FirstStmt.type = "ForStmtType"
           /\ FirstStmt.Init = ClauseNode(i)
           /\ FirstStmt.Cond = ClauseNode(c)
           /\ FirstStmt.Step = ClauseNode(s)
           /\ FirstStmt.Body.type = "BlockStmtType"
    /\ expr \in ForLacksSemicolon => status # "ok"
    /\ expr = SrcForLet =>
         /\ status = "ok"
         /\ FirstStmt.type = "ForStmtType"
         /\ FirstStmt.Init =
              b_VarStmt(SliceOf(<<b_VarDecl(Ident("i"), Num(<<"0">>)),
                                  b_VarDecl(Ident("j"), NilNode)>>))
         /\ FirstStmt.Cond = NilNode
         /\ FirstStmt.Step = NilNode
    /\ expr = SrcForSeq =>
         /\ status = "ok"
         /\ FirstStmt =
              b_ForStmt(
                b_SeqExpr(SliceOf(<<OpNode(<<"=">>, Ident("a"), Num(<<"1">>)),
                                    Ident("b")>>)),
                b_SeqExpr(SliceOf(<<Ident("c"), Ident("d")>>)),
                b_SeqExpr(SliceOf(<<Ident("e"), Ident("f")>>)),
                b_EmptyStmt)

\* for (;;) {} has parsed to a ForStmt with its three clauses absent
C20_AllClausesOmitted ==
  /\ expr = ForInput(<<>>, <<>>, <<>>)
  /\ status = "ok"
  /\ FirstStmt.type = "ForStmtType"
  /\ FirstStmt.Init = NilNode
  /\ FirstStmt.Cond = NilNode
  /\ FirstStmt.Step = NilNode

\* C22: with the rules in their order the first match does not split a
\* token: in a op b each operator of two characters comes back as one
\* token of its type; a word equal to a keyword comes back as that keyword,
\* whatever token follows it; a longer word that begins with a keyword
\* (letter, iffy, new1) comes back as one Identifier.
C22_LongestTokenFirst ==
  /\ nextCalls = 2 =>
       \A o \in TwoCharOps :
         expr = OpBetweenWords(o[1]) =>
           /\ ret = RetTok(Token(o[2], o[1]))
           /\ cursor = 3
  /\ nextCalls = 1 =>
       \A k \in Keywords :
         /\ \A t \in {<<>>} \cup KeywordThen :
              expr = k[1] \o t =>
                /\ ret = RetTok(Token(k[2], k[1]))
                /\ cursor = Len(k[1])
         /\ \A t \in WordTails :
              expr = k[1] \o t =>
                /\ ret = RetTok(Token(Identifier, expr))
                /\ cursor = Len(expr)

\* the one call made on letter returned the Identifier letter
C22_LetterIsIdentifier ==
  /\ expr = <<"l", "e", "t", "t", "e", "r">>
  /\ nextCalls = 1
  /\ ret = RetTok(Token(Identifier, expr))

\* the string literal of the text s
Str(s) == b_StringLit(s)

\* C23 as stated: a quoted string runs from its opening quote to the next
\* occurrence of the same quote character and its StringLit holds the text
\* strictly between the two, so that two strings on one line are two
\* literals, for either quote character, and the other quote character may
\* stand inside a string.
C23_StringExtent ==
  Done =>
    /\ expr = SrcTwoDoubleQuoted =>
         Parsed(OpNode(<<"+">>, Str(<<"a">>), Str(<<"b">>)))
    /\ expr = SrcTwoSingleQuoted =>
         Parsed(OpNode(<<"+">>, Str(<<"a">>), Str(<<"b">>)))
    /\ expr = SrcDoubleWithSingle => Parsed(Str(<<"i", "t", "'", "s">>))
    /\ expr = SrcSingleWithDouble => Parsed(Str(<<"a", "\"", "b">>))

\* 'a' + 'b'; has parsed to the one string literal a' + 'b
C23_SingleQuotedRunsOn ==
  /\ expr = SrcTwoSingleQuoted
  /\ Parsed(Str(<<"a", "'", " ", "+", " ", "'", "b">>))

\* double-quoted strings do what C23 says, and a single-quoted string ends
\* at the last ' that no " precedes; one that holds a " is no token
DoubleQuotedExtent ==
  Done =>
    /\ expr = SrcTwoDoubleQuoted =>
         Parsed(OpNode(<<"+">>, Str(<<"a">>), Str(<<"b">>)))
    /\ expr = SrcDoubleWithSingle => Parsed(Str(<<"i", "t", "'", "s">>))
    /\ expr = SrcSingleWithDouble =>
         status = "err" /\ ret.err = LexError(0, expr)

\* C24: NextToken never returns a Skip token; called with the cursor at or
\* past the end it returns EOF, no error, and leaves the cursor where it
\* is, so that every later call does the same; and where only blanks or
\* comments are left before the end it returns EOF as well.
C24_EndOfInput ==
  /\ [](nextCalls > 0 => ret.tok.Type # Skip)
  /\ [][cursor >= Len(expr) =>
          /\ ret' = RetTok(Token(EOF, <<>>))
          /\ cursor' = cursor]_vars
  /\ [][(nextCalls > 0 /\ ret.tok.Type = EOF) =>
          /\ ret' = ret
          /\ cursor' = cursor]_vars
  /\ [](\A t \in Trails \cup {<<>>} :
          /\ (expr = t /\ nextCalls >= 1) => ret = RetTok(Token(EOF, <<>>))
          /\ (expr = <<"x">> \o t /\ nextCalls >= 2) =>
               ret = RetTok(Token(EOF, <<>>)))

\* on x, blanks and a line comment the second call and those after it, up
\* to the last, returned EOF with the cursor at the end
C24_EndReachedOverComment ==
  /\ expr = <<"x", " ", "/", "/", " ", "c">>
  /\ nextCalls = MaxCalls
  /\ ret = RetTok(Token(EOF, <<>>))
  /\ cursor = Len(expr)

\* no rule matches at the offset c of the input
NoRuleAt(c) == c < Len(expr) /\ FirstMatch(DefaultRules, Drop(expr, c), 1) = 0

\* C25: where no rule matches at the cursor NextToken fails; the error of
\* a failed call has as Position the cursor the call leaves, which is the
\* offset of the first unmatched character, after what was skipped, and as
\* text the whole rest of the input from there; a call made after a failed
\* one fails with the same error at the same cursor.
C25_LexicalError ==
  /\ [][NoRuleAt(cursor) =>
          /\ ret' = RetErr(LexError(cursor, Drop(expr, cursor)))
          /\ cursor' = cursor]_vars
  /\ [](ret.err # NoErr =>
          /\ NoRuleAt(cursor)
          /\ ret = RetErr(LexError(cursor, Drop(expr, cursor))))
  /\ [][ret.err # NoErr => (ret' = ret /\ cursor' = cursor)]_vars
  /\ [](\A t \in ClosedTrails \cup {<<>>}, u \in Unmatched :
          /\ (expr = t \o u /\ nextCalls >= 1) =>
               ret = RetErr(LexError(Len(t), u))
          /\ (expr = <<"x">> \o t \o u /\ nextCalls >= 2) =>
               ret = RetErr(LexError(1 + Len(t), u)))

\* on x, a block comment, a line comment and @@ the second call failed at
\* the offset of the first @, and so did every call after it
C25_ErrorAfterComments ==
  /\ expr = <<"x">>
              \o <<"/", "*", "\n", "*", "/", " ", "/", "/", " ", "b", "\n", " ">>
              \o <<"@", "@">>
  /\ nextCalls = MaxCalls
  /\ cursor = 13
  /\ ret = RetErr(LexError(13, <<"@", "@">>))

\* the tree of the lexemes of a base of GapInputs
GapTree(ls) ==
  CASE ls = LexemesAssignNumber ->
         ProgramOf(OpNode(<<"=">>, Ident("x"), Num(<<"1">>)))
    [] ls = LexemesLet ->
         ProgramOfStmt(b_VarStmt(SliceOf(<<b_VarDecl(Ident("x"), NilNode)>>)))
    [] ls = LexemesAssignDoubleQuoted ->
         ProgramOf(OpNode(<<"=">>, Ident("y"), Str(<<"a">>)))
    [] ls = LexemesAssignSingleQuoted ->
         ProgramOf(OpNode(<<"=">>, Ident("y"), Str(<<"a">>)))

\* Parse returned the tree t
Returned(t) == status = "ok" /\ ret.node = t

\* C21 as stated: blanks, a line comment with its line break or a block
\* comment put between two tokens of an input leave the tree Parse returns
\* for it as it is.
C21_GapsTransparent ==
  Done =>
    \A ls \in GapBases :
      /\ expr = Join(ls) => Returned(GapTree(ls))
      /\ \A k \in 1..(Len(ls) - 1), g \in Gaps :
           expr = WithGap(ls, k, g) => Returned(GapTree(ls))

\* y = 'a' ; with the line comment //' after 'a' has parsed to another
\* tree: the string literal runs on to the quote of the comment
C21_CommentQuoteEndsString ==
  /\ expr = WithGap(LexemesAssignSingleQuoted, 3, <<"/", "/", "'", "\n">>)
  /\ Returned(ProgramOf(OpNode(<<"=">>, Ident("y"),
                                Str(<<"a", "'", "/", "/">>))))

\* a gap changes the tree only after a single-quoted string and only when
\* it holds a single quote
GapsTransparentButForQuote ==
  Done =>
    \A ls \in GapBases :
      \A k \in 1..(Len(ls) - 1), g \in Gaps :
        (/\ expr = WithGap(ls, k, g)
         /\ ~(ls = LexemesAssignSingleQuoted /\ k = 3 /\ g \in GapsWithQuote))
          => Returned(GapTree(ls))

\* the errors of an operator token without an enum value
UnknownInfixOp == {"UnknownBinaryOp", "UnknownLogicalOp", "UnknownAssignOp"}

\* the expression statement of the returned program of one statement
OnlyExpr == ret.node.Body.elems[1].Expr

\* the table an operator node's Op indexes
OpTable(n) ==
  CASE n.type = "BinaryExprType" -> binaryOpStrings
    [] n.type = "LogicalExprType" -> logicalOpStrings
    [] n.type = "AssignExprType" -> assignOpStrings

\* C26: the operator rules of the lexer and the tables of BinaryOp,
\* LogicalOp and AssignOp agree: Parse never returns UnknownBinaryOp,
\* UnknownLogicalOp or UnknownAssignOp, and for each operator text op the
\* lexer returns, a op b; parses to a node whose Op is a valid enum value,
\* the one of op.
C26_OperatorTablesAgree ==
  Done =>
    /\ ret.err.kind \notin UnknownInfixOp
    /\ \A op \in LexedInfixOps :
         expr = OpOnce(op) =>
           /\ status = "ok"
           /\ OnlyExpr.type \in
                {"BinaryExprType", "LogicalExprType", "AssignExprType"}
           /\ OnlyExpr.Op # 0
           /\ OpTable(OnlyExpr)[OnlyExpr.Op + 1] = op
           /\ OnlyExpr.Left = Ident("a")
           /\ OnlyExpr.Right = Ident("b")

\* a / b; has parsed to the division of a by b
C26_DivisionParsed ==
  /\ expr = OpOnce(<<"/">>)
  /\ <<"/">> \in LexedInfixOps
  /\ Parsed(b_BinaryExpr(BinaryOpFromString(<<"/">>), Ident("a"), Ident("b")))

\* the statement name;
NameStmt(name) == b_ExprStmt(Ident(name))

\* C27: an else belongs to the nearest if before it that has none yet:
\* if (x) if (y) a; else b; is if (x) { if (y) a; else b; }, with the
\* outer alt absent, and a second else if goes to the inner chain too; an
\* if closed by a block takes no else from outside the block.
C27_ElseToNearestIf ==
  Done =>
    /\ expr = SrcIfIfElse =>
         Returned(ProgramOfStmt(
           b_IfStmt(Ident("x"),
                    b_IfStmt(Ident("y"), NameStmt("a"), NameStmt("b")),
                    NilNode)))
    /\ expr = SrcIfIfElseIfElse =>
         Returned(ProgramOfStmt(
           b_IfStmt(Ident("x"),
                    b_IfStmt(Ident("y"), NameStmt("a"),
                             b_IfStmt(Ident("z"), NameStmt("b"),
                                      NameStmt("c"))),
                    NilNode)))
    /\ expr = SrcIfBlockElse =>
         Returned(ProgramOfStmt(
           b_IfStmt(Ident("x"),
                    b_BlockStmt(SliceOf(<<
                      b_IfStmt(Ident("y"), NameStmt("a"), NilNode)>>)),
                    NameStmt("b"))))

\* if (x) if (y) a; else b; has parsed with the else on the inner if
C27_InnerIfHasElse ==
  /\ expr = SrcIfIfElse
  /\ status = "ok"
  /\ FirstStmt.Alt = NilNode
  /\ FirstStmt.Cons.Alt = NameStmt("b")

\* consume is about to run, asked for the type Top.arg
AtConsume == status = "run" /\ Top.fn = "consume"

\* consume fails with e and leaves the lookahead and the lexer alone
ConsumeRefuses(e) ==
  /\ ret' = RetErr(e)
  /\ UNCHANGED <<lookahead, cursor, nextCalls>>

\* the call of NextToken that consume would make
Fetched == NextToken(DefaultRules, expr, cursor)

\* C28 (as the code has it): consume(kind) fails with
\* UnexpectedEndOfInput{kind} when the lookahead is EOF (or absent) and
\* with UnexpectedToken{actual kind, actual text, kind} when it has
\* another kind, in both cases leaving lookahead and cursor alone and not
\* calling the lexer; on a match it calls the lexer once, and then returns
\* the old lookahead with the fetched token as the new one if the lexer
\* succeeded, or returns the lexer's error with the lookahead left absent
\* if it failed.
C28_ConsumeContract ==
  [][AtConsume =>
       IF lookahead = NilTok \/ lookahead.Type = EOF
       THEN ConsumeRefuses(ErrUnexpectedEndOfInput(Top.arg))
       ELSE IF lookahead.Type # Top.arg
       THEN ConsumeRefuses(
              ErrUnexpectedToken(lookahead.Type, Top.arg, lookahead.Value))
       ELSE /\ nextCalls' = nextCalls + 1
            /\ cursor' = Fetched.cursor
            /\ IF Fetched.err = NoErr
               THEN ret' = RetTok(lookahead) /\ lookahead' = Fetched.tok
               ELSE ret' = RetErr(Fetched.err) /\ lookahead' = NilTok]_vars

\* on x @ the consume of x matched, the lexer failed on @, and the parse
\* ended with the lexer's error and no lookahead
C28_MatchThenLexerError ==
  /\ expr = <<"x", " ", "@">>
  /\ status = "err"
  /\ ret.err = LexError(2, <<"@">>)
  /\ lookahead = NilTok
  /\ nextCalls = 2

\* C28 as stated: on a match consume returns the old lookahead and puts
\* one newly fetched token in its place, whatever the lexer does.
C28_MatchAlwaysReturnsToken ==
  [][AtConsume =>
       IF lookahead = NilTok THEN TRUE
       ELSE IF lookahead.Type = EOF
       THEN ConsumeRefuses(ErrUnexpectedEndOfInput(Top.arg))
       ELSE IF lookahead.Type # Top.arg
       THEN ConsumeRefuses(
              ErrUnexpectedToken(lookahead.Type, Top.arg, lookahead.Value))
       ELSE /\ nextCalls' = nextCalls + 1
            /\ ret' = RetTok(lookahead)
            /\ lookahead' # NilTok
            /\ lookahead' = Fetched.tok]_vars

\* Parse has made its first fetch and has not returned
Parsing == status = "run" /\ nextCalls >= 1

\* C29 as stated: at every point of a parse one token is fetched and not
\* consumed: the calls of NextToken are one more than the tokens consumed
\* and a lookahead is there; and after EOF has been fetched the lexer is
\* not called again.
C29_OneTokenBuffered ==
  /\ [](Parsing => (nextCalls = consumed + 1 /\ lookahead # NilTok))
  /\ [][lookahead.Type = EOF => nextCalls' = nextCalls]_vars

\* on x , @ the parse goes on without a lookahead: the fetch after the
\* comma failed, seqExpr dropped the error and called expr, and unaryExpr
\* is about to read the lookahead
C29_ParsingWithoutToken ==
  /\ expr = <<"x", " ", ",", " ", "@">>
  /\ status = "run"
  /\ Top.fn = "unaryExpr"
  /\ lookahead = NilTok
  /\ nextCalls = 3
  /\ consumed = 1

\* as long as no fetch has failed one token is buffered, and the lexer is
\* never called after EOF
OneTokenUntilFetchFails ==
  /\ [](Parsing /\ lookahead # NilTok => nextCalls = consumed + 1)
  /\ []((Parsing /\ lookahead = NilTok) =>
          nextCalls \in {consumed + 1, consumed + 2})
  /\ [][lookahead.Type = EOF => nextCalls' = nextCalls]_vars

\* the returned tree has a MemberExpr whose obj is a CallExpr
MemberOfCall ==
  \E n \in Nodes(ret.node) :
    n.type = "MemberExprType" /\ n.Obj.type = "CallExprType"

\* the input has a ) with . or [ right after it
CloseThenAccessor ==
  \E i \in 1..(Len(expr) - 1) : expr[i] = ")" /\ expr[i + 1] \in {".", "["}

====
